---- MODULE Spec2Model ----
(***************************************************************************)
(* Crash recovery on a RAMCloud recovery master: the RECOVER request       *)
(* handler of MasterService (src/src/misc/crc32c.cc holds the text of      *)
(* MasterService.cc) and its helper, which fetches filtered recovery       *)
(* segments from backups with a scoreboard of replicas and four task       *)
(* slots, replays them into a side log and commits it.                     *)
(***************************************************************************)
EXTENDS Integers, Sequences, FiniteSets, TLC

\* ------------------------------------------------------------------ bounds
\* Longest replica list of a Recover request.
MaxReplicas == 5
\* Largest cluster timestamp a lease carries.
MaxTime == 2
\* Longest replica list that is combined with every recovery partition, and
\* with writes and txPrepares on other service threads.
MaxShortReplicas == 2

\* Longest replica list handed to detectSegmentRecoveryFailure on its own.
MaxDetectReplicas == 4

\* Most entries the master's log holds while a tablet migrates.
MaxLogEntries == 3
\* Most client RPCs in flight on the migrating master at a time.
MaxOutstanding == 1
\* Entries of unit size a transfer segment holds.
SegmentCapacity == 2
\* Most segments a master takes in through ReceiveMigrationData RPCs that
\* arrive on their own.
MaxReceived == 2
\* Largest rpcId of the linearizable writes of the one client lease.
MaxRpcId == 2
\* Highest version the object the writes go to gets.
MaxVersion == 3
\* distinct segment ids the crashed master may have on the backups
MaxSegments == 2
\* fetches that may fail during one recovery of a crashed master
MaxFetchFailures == 1
\* Disabler objects that may exist over the life of the service
MaxDisablers == 2
\* most participants a TxDecision request lists
MaxParticipants == 2

\* --------------------------------------------------------- program constants
\* Tub<RecoveryTask> tasks[4]
W == 4
\* The largest key hash, ~0UL in the program, in a key-hash space of four.
MaxKeyHash == 3
\* RecoveryTest::setUp: backup1, backup2, backup3
NumBackups == 3
\* RecoveryTest::setUp: master1, master2
NumMasters == 2
\* RecoveryTest::setUp: the first segment written for the crashed master
FirstSegmentId == 88

VARIABLES
    pc,                 \* position of the Recover handler thread
    request,            \* the Recover request: [tablet, indexlet, replicas]
    replySent,          \* rpc->sendReply() has run
    tablets,            \* tabletManager: set of [tableId, startKeyHash, endKeyHash, state]
    indexlets,          \* indexletManager: set of [id, state]
    clusterTime,        \* MasterService::clusterTime
    clientLease,        \* timestamp returned by getLeaseInfoRpc.wait() (-1: not yet)
    currentClusterTime, \* local of the compare-exchange loop
    logHead,            \* segment id of the head of the log
    headOfLog,          \* local: position recorded by rollHeadOver() (-1: not yet)
    replicas,           \* vector<Replica>: [backupId, segmentId, state]
    tasks,              \* Tub<RecoveryTask> tasks[4]: replica index, 0 when empty
    runningSet,         \* segment ids with a GetRecoveryData RPC in flight
    activeRequests,     \* uint32_t activeRequests
    notStarted,         \* iterator notStarted, as an index (Len+1 is end())
    grdIssued,          \* per replica: number of GetRecoveryData RPCs issued
    fetchFailed,        \* replicas whose fetch or replay raised an exception
    replayCount,        \* per segment id: number of completed replaySegment calls
    sideLog,            \* segment ids whose entries sit in the side log
    sideLogCommits,     \* number of sideLog.commit() calls
    log,                \* segment ids whose entries are durable in the log
    hashTable,          \* segment ids whose objects the hash table refers to
    recoverThrew,       \* exception that left the helper and the handler caught
    exception,          \* exception that left the handler
    wasNormal,          \* tablets of the partition seen NORMAL since the request began
    successful,         \* local bool successful
    finishedCalls,      \* number of recoveryMasterFinished RPCs sent
    finishedSuccess,    \* the success flag each of them carried
    cancelRecovery,     \* bool cancelRecovery, the reply of the coordinator
    locksRegrabbed,     \* preparedWrites.regrabLocksAfterRecovery ran
    orphansRemoved      \* objectManager.removeOrphanedObjects ran

recoveryVars == <<replicas, tasks, runningSet, activeRequests, notStarted,
                  grdIssued, fetchFailed, replayCount, sideLog, sideLogCommits,
                  log, hashTable>>
handlerVars == <<pc, request, replySent, clientLease, currentClusterTime,
                 logHead, headOfLog, recoverThrew, exception, wasNormal, successful,
                 finishedCalls, finishedSuccess, cancelRecovery, locksRegrabbed,
                 orphansRemoved>>
VARIABLES
    mpc,                \* position of the migrateTablet handler thread
    reqHdr,             \* MigrateTablet request: [tableId, firstKeyHash, lastKeyHash, newOwnerMasterId]
    respStatus,         \* respHdr->common.status of the migrateTablet call
    logEntries,         \* objectManager.getLog(): the entries, oldest first
    headSegmentStart,   \* index of the first entry of the head segment
    objectMap,          \* hash table: key -> reference of its live object (0: none)
    logIt,              \* LogIterator it, as an index into the log
    transferSeg,        \* Tub<Segment> transferSeg: its entries (<<>>: none)
    newOwnerLogHead,    \* Log::Position newOwnerLogHead (-1: not yet)
    currentEpoch,       \* ServerRpcPool<>: the current epoch
    epoch,              \* local uint64_t epoch (-1: not yet)
    rpcEpoch,           \* rpc->worker->rpc->epoch of the migrateTablet RPC
    outstanding,        \* client RPCs in flight: [op, key, size, epoch]
    position,           \* Log::Position position, the Phase 2 snapshot (-1: not yet)
    destTablets,        \* tablet map of the new owner
    destLogHead,        \* head of the new owner's log
    received,           \* segments the new owner replayed and committed
    destObjects,        \* the new owner's hash table: key -> [version, type]
    reassignCalls,      \* reassignTabletOwnership RPCs the coordinator got
    steps,              \* the steps of the migrateTablet call, in order
    appended,           \* references of the entries put into a transfer segment
    snapshotLive,       \* objectMap as it was at the Phase 2 snapshot
    lastRpc             \* the last RPC a handler served on its own: [op, who, req, status]

VARIABLES
    unackedRpcResults,  \* per rpcId: "none", "inProgress", or the recorded result [status, version]
    writePc,            \* per rpcId: position of the write handler that executes it
    respHdrs,           \* per rpcId: respHdr of the write handler that executes it
    objectWrites,       \* per rpcId: objects written by objectManager.writeObject
    indexInserts,       \* per rpcId: requestInsertIndexEntries calls
    completions,        \* per rpcId: unackedRpcResults.recordCompletion calls
    objectVersion,      \* version of the object the writes go to (0: none)
    lastReply           \* the last reply to a write: [rpcId, response, duplicate]

VARIABLES
    segmentsOf,         \* per backup: the segment ids it stores for the crashed master
    will,               \* the crashed master's tablets: [startKeyHash, endKeyHash, partition]
    segmentIdToBackups, \* Recovery::segmentIdToBackups in iteration order: [segmentId, backup]
    backups,            \* Recovery::backups, the list given to the recovery masters
    cpc,                \* position of the coordinator in the recovery
    partitionId,        \* the next partition Recovery::start hands out
    testLog,            \* TestLog of the coordinator
    boards              \* per recovery master: the scoreboard and the TestLog of its recover call

VARIABLES
    migrators           \* per migration RPC on the master: [pc, rpcEpoch, epoch]

VARIABLES
    split,              \* the splitAndMigrateIndexlet handler thread: [pc, it, transferSeg, status, rpcEpoch, epoch, position, steps]
    splitReq,           \* SplitAndMigrateIndexlet request: [tableId, indexId, currentBackingTableId, newBackingTableId, splitKey, newOwnerId]
    indexLog,           \* the log as the indexlet migration scans it: [type, tableId, indexKey, size, ref]
    indexletMap,        \* indexletManager: set of [tableId, indexId, firstKey, firstNotOwnedKey]
    splitSent           \* receiveMigrationData calls of the indexlet migration: [segment, tableId, firstKeyHash]

splitVars == <<split, splitReq, indexLog, indexletMap, splitSent>>

VARIABLES
    initCalled,         \* MasterService::initCalled
    disableCount,       \* MasterService::disableCount
    disablers,          \* per Disabler object: [pc, service]
    lastDispatch        \* the last request dispatch() was called for: [opcode, outcome]

gateVars == <<initCalled, disableCount, disablers, lastDispatch>>

VARIABLES
    txReq,              \* the last TxDecision request: [decision, participants]
    txReplies,          \* the status of respHdr at each rpc->sendReply() of that request
    preparedWrites,     \* preparedWrites: per rpcId the type of the prepared op, or "none"
    txCommits,          \* the commits the object manager has made: set of [rpcId, call]
    txSynced            \* objectManager.syncChanges() has run for that request

txVars == <<txReq, txReplies, preparedWrites, txCommits, txSynced>>

serviceVars == <<migrators, splitVars, gateVars, txVars>>

coordinatorVars == <<segmentsOf, will, segmentIdToBackups, backups, cpc,
                     partitionId, testLog, boards>>

writeVars == <<unackedRpcResults, writePc, respHdrs, objectWrites, indexInserts,
               completions, objectVersion, lastReply>>

migrationVars == <<mpc, reqHdr, respStatus, logEntries, headSegmentStart,
                   objectMap, logIt, transferSeg, newOwnerLogHead, currentEpoch,
                   epoch, rpcEpoch, outstanding, position, destTablets,
                   destLogHead, received, destObjects, reassignCalls, steps,
                   appended, snapshotLive, lastRpc, writeVars,
                   coordinatorVars, serviceVars>>
recoverState == <<recoveryVars, handlerVars, indexlets, clusterTime, lastRpc,
                  writeVars, coordinatorVars, serviceVars>>

vars == <<recoveryVars, handlerVars, tablets, indexlets, clusterTime, migrationVars>>

\* ------------------------------------------------------------------ inputs
Max(a, b) == IF a >= b THEN a ELSE b

SeqMax(s) == IF Len(s) = 0 THEN 0
             ELSE CHOOSE m \in {s[i] : i \in 1..Len(s)} :
                      \A i \in 1..Len(s) : s[i] <= m

\* Segment-id lists of length n.  Only equality of segment ids matters to the
\* scoreboard, so ids are numbered by first occurrence.
RECURSIVE SegmentLists(_)
SegmentLists(n) ==
    IF n = 0 THEN {<<>>}
    ELSE UNION {{Append(s, k) : k \in 1..(SeqMax(s) + 1)} :
                    s \in SegmentLists(n - 1)}

\* Replica(backupId, segmentId, state = NOT_STARTED)
Replica(backupId, segmentId) ==
    [backupId |-> backupId, segmentId |-> segmentId, state |-> "NOT_STARTED"]

\* The i-th replica of a segment lives on backup number (copies so far).
ReplicaList(segs) ==
    [i \in 1..Len(segs) |->
        Replica(Cardinality({j \in 1..i : segs[j] = segs[i]}), segs[i])]

ReplicaListsUpTo(len) ==
    UNION {{ReplicaList(s) : s \in SegmentLists(n)} : n \in 0..len}

Range(t, s, e) == [tableId |-> t, startKeyHash |-> s, endKeyHash |-> e]

\* Recovery partitions a Recover request may carry.
Partitions ==
    { [tablet |-> <<>>, indexlet |-> <<>>],
      [tablet |-> <<Range(1, 0, 1)>>, indexlet |-> <<>>],
      [tablet |-> <<Range(1, 0, 1), Range(1, 2, 3)>>, indexlet |-> <<7>>],
      [tablet |-> <<Range(1, 0, 1), Range(1, 1, 3)>>, indexlet |-> <<>>] }

\* The Recover requests: every partition with the short replica lists, and the
\* one-tablet partition with every replica list.
Requests ==
    {[tablet |-> p.tablet, indexlet |-> p.indexlet, replicas |-> r] :
        p \in Partitions, r \in ReplicaListsUpTo(MaxShortReplicas)}
    \cup
    {[tablet |-> <<Range(1, 0, 1)>>, indexlet |-> <<>>, replicas |-> r] :
        r \in ReplicaListsUpTo(MaxReplicas)}

\* Tablet maps the master may hold when the request arrives.
InitialTabletMaps ==
    { {}, {[tableId |-> 1, startKeyHash |-> 2, endKeyHash |-> 3, state |-> "NORMAL"]} }

\* ------------------------------------------------------------ TabletManager
Overlaps(map, r) ==
    \E t \in map : /\ t.tableId = r.tableId
                   /\ t.startKeyHash <= r.endKeyHash
                   /\ r.startKeyHash <= t.endKeyHash

WithState(r, state) ==
    [tableId |-> r.tableId, startKeyHash |-> r.startKeyHash,
     endKeyHash |-> r.endKeyHash, state |-> state]

\* addTablet: false, and no change, when the range overlaps an existing tablet.
AddTabletOk(map, r) == ~Overlaps(map, r)
AddTablet(map, r, state) ==
    IF AddTabletOk(map, r) THEN map \cup {WithState(r, state)} ELSE map

\* changeState: false, and no change, unless exactly that tablet is in oldState.
ChangeStateOk(map, r, oldState) == WithState(r, oldState) \in map
ChangeState(map, r, oldState, newState) ==
    IF ChangeStateOk(map, r, oldState)
    THEN (map \ {WithState(r, oldState)}) \cup {WithState(r, newState)}
    ELSE map

\* deleteTablet: removes exactly that tablet, whatever its state.
DeleteTablet(map, r) ==
    {t \in map : ~(t.tableId = r.tableId /\ t.startKeyHash = r.startKeyHash
                   /\ t.endKeyHash = r.endKeyHash)}

StateOf(map, r) ==
    IF \E t \in map : WithState(r, t.state) = t
    THEN (CHOOSE t \in map : WithState(r, t.state) = t).state
    ELSE "ABSENT"

\* ---------------------------------------------------------- IndexletManager
AddIndexlet(map, id, state) ==
    IF \E x \in map : x.id = id THEN map ELSE map \cup {[id |-> id, state |-> state]}

IndexletChangeStateOk(map, id, oldState) == [id |-> id, state |-> oldState] \in map
IndexletChangeState(map, id, oldState, newState) ==
    IF IndexletChangeStateOk(map, id, oldState)
    THEN (map \ {[id |-> id, state |-> oldState]}) \cup {[id |-> id, state |-> newState]}
    ELSE map

DeleteIndexlet(map, id) == {x \in map : x.id # id}

\* --------------------------------------------------------- migration inputs
\* ServerId serverId of this master.
serverId == 1

\* Keys as (tableId, keyHash).  The migrated range is [0, 1] of table 1; the
\* other keys lie outside it, in the same table and in another one.
Keys == {<<1, 0>>, <<1, 2>>, <<2, 0>>}

\* The write and remove RPCs of the clients: [op, key, size].  Objects larger
\* than a transfer segment are written in the migrated range only.
ClientRpcs ==
    {[op |-> "write", key |-> key, size |-> 1] : key \in Keys}
    \cup {[op |-> "write", key |-> <<1, 0>>, size |-> SegmentCapacity + 1]}
    \cup {[op |-> "remove", key |-> key, size |-> 1] : key \in Keys}

\* The transaction records that reach the log: [type, key].
TxRecords ==
    {[type |-> "PREP", key |-> <<1, 0>>],
     [type |-> "TXDECISION", key |-> <<1, 0>>],
     [type |-> "TXDECISION", key |-> <<1, 2>>]}

\* MigrateTablet requests: a range the master holds and one it does not, to
\* itself and to another master.
MigrateRequests ==
    {[tableId |-> t, firstKeyHash |-> 0, lastKeyHash |-> 1, newOwnerMasterId |-> o] :
        t \in {1, 3}, o \in {1, 2}}

\* The tablets of the master when the MigrateTablet request arrives; the
\* tablet of the requested range is serving or still being constructed.
MigrationTabletMaps ==
    {{WithState(Range(1, 0, 1), st), WithState(Range(1, 2, 3), "NORMAL"),
      WithState(Range(2, 0, 3), "NORMAL")} : st \in {"NORMAL", "RECOVERING"}}

\* The tablets of the new owner: none, or one that overlaps the range.
DestTabletMaps == {{}, {WithState(Range(1, 1, 2), "NORMAL")}}

NoObject == [version |-> 0, type |-> "NONE"]

\* No RPC served yet.
NoRpc == [op |-> "none", who |-> "none", req |-> <<>>, status |-> "OK"]

\* The rpcIds of linearizable writes (rpcId > 0).
RpcIds == 1..MaxRpcId

NoReply == [rpcId |-> 0, response |-> [status |-> "OK", version |-> 0],
            duplicate |-> FALSE]

\* unackedRpcResults knows nothing of the request.
NoResult == [status |-> "none", version |-> 0]

\* The request is registered and its result is not recorded yet.
InProgress == [status |-> "inProgress", version |-> 0]

\* No write was ever received.
WritesAtRest ==
    /\ unackedRpcResults = [id \in RpcIds |-> NoResult]
    /\ writePc = [id \in RpcIds |-> "idle"]
    /\ respHdrs = [id \in RpcIds |-> [status |-> "OK", version |-> 0]]
    /\ objectWrites = [id \in RpcIds |-> 0]
    /\ indexInserts = [id \in RpcIds |-> 0]
    /\ completions = [id \in RpcIds |-> 0]
    /\ objectVersion = 0
    /\ lastReply = NoReply

Backups == 1..NumBackups
Masters == 1..NumMasters
BackupSegmentIds == FirstSegmentId..(FirstSegmentId + MaxSegments - 1)

\* A recovery master that got no Recover request.
IdleBoard ==
    [pc |-> "idle", partition |-> -1, tablets |-> {}, replicas |-> <<>>,
     tasks |-> [k \in 1..W |-> 0], runningSet |-> {}, activeRequests |-> 0,
     grdIssued |-> <<>>, notStarted |-> 1, log |-> <<>>]

\* The migration RPCs that may run on the master together.
Migrators == {"migrateTablet", "splitAndMigrateIndexlet"}

NoMigrator == [pc |-> "none", rpcEpoch |-> 0, epoch |-> 0]

\* Nothing else is going on in the service.
NoSplit == [pc |-> "idle", it |-> 1, transferSeg |-> <<>>, status |-> "OK",
            rpcEpoch |-> 0, epoch |-> -1, position |-> -1, steps |-> <<>>]

NoSplitRequest == [tableId |-> 0, indexId |-> 0, currentBackingTableId |-> 0,
                   newBackingTableId |-> 0, splitKey |-> 0, newOwnerId |-> 0]

MigratorsAtRest == migrators = [m \in Migrators |-> NoMigrator]

SplitAtRest ==
    /\ split = NoSplit
    /\ splitReq = NoSplitRequest
    /\ indexLog = <<>>
    /\ indexletMap = {}
    /\ splitSent = <<>>

DisablerIds == 1..MaxDisablers

NoDisabler == [pc |-> "none", service |-> "NULL"]

NoDispatch == [opcode |-> "none", outcome |-> "none"]

\* The service is initialized and nothing disables it.
GateAtRest ==
    /\ initCalled = TRUE
    /\ disableCount = 0
    /\ disablers = [d \in DisablerIds |-> NoDisabler]
    /\ lastDispatch = NoDispatch

\* The rpcIds of the participants of a transaction.
TxRpcIds == {1, 2}

NoTxRequest == [decision |-> "none", participants |-> <<>>]

TxAtRest ==
    /\ txReq = NoTxRequest
    /\ txReplies = <<>>
    /\ preparedWrites = [id \in TxRpcIds |-> "none"]
    /\ txCommits = {}
    /\ txSynced = FALSE

ServiceAtRest ==
    /\ MigratorsAtRest
    /\ SplitAtRest
    /\ GateAtRest
    /\ TxAtRest

\* No master has crashed.
CoordinatorAtRest ==
    /\ segmentsOf = [b \in Backups |-> {}]
    /\ will = <<>>
    /\ segmentIdToBackups = <<>>
    /\ backups = <<>>
    /\ cpc = "idle"
    /\ partitionId = 0
    /\ testLog = <<>>
    /\ boards = [m \in Masters |-> IdleBoard]

\* No migration, no client RPC and an empty log.
MigrationAtRest ==
    /\ mpc = "idle"
    /\ reqHdr = [tableId |-> 1, firstKeyHash |-> 0, lastKeyHash |-> 1,
                 newOwnerMasterId |-> 2]
    /\ respStatus = "OK"
    /\ logEntries = <<>>
    /\ headSegmentStart = 1
    /\ objectMap = [key \in Keys |-> 0]
    /\ logIt = 1
    /\ transferSeg = <<>>
    /\ newOwnerLogHead = -1
    /\ currentEpoch = 1
    /\ epoch = -1
    /\ rpcEpoch = 0
    /\ outstanding = {}
    /\ position = -1
    /\ destTablets = {}
    /\ destLogHead = 1
    /\ received = <<>>
    /\ destObjects = [key \in Keys |-> NoObject]
    /\ reassignCalls = <<>>
    /\ steps = <<>>
    /\ appended = {}
    /\ snapshotLive = <<>>
    /\ lastRpc = NoRpc
    /\ WritesAtRest

\* ------------------------------------------------------------------- Init
Init ==
    /\ pc = "idle"
    /\ request \in Requests
    /\ replySent = FALSE
    /\ tablets \in InitialTabletMaps
    /\ indexlets = {}
    /\ clusterTime = 0
    /\ clientLease = -1
    /\ currentClusterTime = 0
    /\ logHead = 1
    /\ headOfLog = -1
    /\ replicas = <<>>
    /\ tasks = [k \in 1..W |-> 0]
    /\ runningSet = {}
    /\ activeRequests = 0
    /\ notStarted = 1
    /\ grdIssued = <<>>
    /\ fetchFailed = {}
    /\ replayCount = <<>>
    /\ sideLog = {}
    /\ sideLogCommits = 0
    /\ log = {}
    /\ hashTable = {}
    /\ recoverThrew = "none"
    /\ exception = "none"
    /\ wasNormal = {}
    /\ successful = FALSE
    /\ finishedCalls = 0
    /\ finishedSuccess = <<>>
    /\ cancelRecovery = FALSE
    /\ locksRegrabbed = FALSE
    /\ orphansRemoved = FALSE
    /\ MigrationAtRest
    /\ CoordinatorAtRest
    /\ ServiceAtRest

\* ------------------------------------------------- Recover handler: prologue
\* The tablet ranges of the request's recovery partition.
PartitionTablets == {request.tablet[i] : i \in 1..Len(request.tablet)}

\* wasNormal after a step that leaves the tablet map as map.
SeenNormal(map) ==
    wasNormal \cup {r \in PartitionTablets : StateOf(map, r) = "NORMAL"}

\* Parse the request into the replica vector, then rpc->sendReply() and the
\* construction of GetLeaseInfoRpc.
\* Variant: the reply is left for the end of the handler.
RecoverRpcReplyLater ==
    /\ pc = "idle"
    /\ replicas' = request.replicas
    /\ grdIssued' = [i \in 1..Len(request.replicas) |-> 0]
    /\ replayCount' = [sid \in {request.replicas[i].segmentId :
                                   i \in 1..Len(request.replicas)} |-> 0]
    /\ wasNormal' = SeenNormal(tablets)
    /\ pc' = "installTablets"
    /\ UNCHANGED <<tasks, runningSet, activeRequests, notStarted, fetchFailed,
                   sideLog, sideLogCommits, log, hashTable>>
    /\ UNCHANGED <<request, replySent, clientLease, currentClusterTime, logHead,
                   headOfLog, recoverThrew, exception, successful, finishedCalls,
                   finishedSuccess, cancelRecovery, locksRegrabbed, orphansRemoved>>
    /\ UNCHANGED <<tablets, indexlets, clusterTime>>
    /\ UNCHANGED migrationVars

RecoverRpc ==
    /\ pc = "idle"
    /\ replicas' = request.replicas
    /\ grdIssued' = [i \in 1..Len(request.replicas) |-> 0]
    /\ replayCount' = [sid \in {request.replicas[i].segmentId :
                                   i \in 1..Len(request.replicas)} |-> 0]
    /\ replySent' = TRUE
    /\ wasNormal' = SeenNormal(tablets)
    /\ pc' = "installTablets"
    /\ UNCHANGED <<tasks, runningSet, activeRequests, notStarted, fetchFailed,
                   sideLog, sideLogCommits, log, hashTable>>
    /\ UNCHANGED <<request, clientLease, currentClusterTime, logHead, headOfLog,
                   recoverThrew, exception, successful, finishedCalls,
                   finishedSuccess, cancelRecovery, locksRegrabbed, orphansRemoved>>
    /\ UNCHANGED <<tablets, indexlets, clusterTime>>
    /\ UNCHANGED migrationVars

\* The loop over recoveryPartition.tablet(): tablets are added as RECOVERING
\* one after the other; the first that overlaps ends the loop by an exception,
\* leaving the earlier ones in the map.
RECURSIVE InstallFrom(_, _, _)
InstallFrom(map, list, i) ==
    IF i > Len(list) THEN [map |-> map, added |-> TRUE]
    ELSE IF ~AddTabletOk(map, list[i]) THEN [map |-> map, added |-> FALSE]
    ELSE InstallFrom(AddTablet(map, list[i], "RECOVERING"), list, i + 1)

InstallTablets ==
    /\ pc = "installTablets"
    /\ LET r == InstallFrom(tablets, request.tablet, 1)
       IN /\ tablets' = r.map
          /\ wasNormal' = SeenNormal(r.map)
          /\ IF r.added
             THEN /\ pc' = "waitLease"
                  /\ exception' = exception
             ELSE /\ pc' = "threw"
                  /\ exception' = "Exception"
    /\ UNCHANGED recoveryVars
    /\ UNCHANGED <<request, replySent, clientLease, currentClusterTime, logHead,
                   headOfLog, recoverThrew, successful, finishedCalls,
                   finishedSuccess, cancelRecovery, locksRegrabbed, orphansRemoved>>
    /\ UNCHANGED <<indexlets, clusterTime>>
    /\ UNCHANGED migrationVars

\* getLeaseInfoRpc.wait() returns the coordinator's timestamp; the handler then
\* reads clusterTime into currentClusterTime.
GetLeaseInfoWait(timestamp) ==
    /\ pc = "waitLease"
    /\ clientLease' = timestamp
    /\ currentClusterTime' = clusterTime
    /\ pc' = "updateClusterTime"
    /\ UNCHANGED recoveryVars
    /\ UNCHANGED <<request, replySent, logHead, headOfLog, recoverThrew, exception,
                   wasNormal, successful, finishedCalls, finishedSuccess,
                   cancelRecovery, locksRegrabbed, orphansRemoved>>
    /\ UNCHANGED <<tablets, indexlets, clusterTime>>
    /\ UNCHANGED migrationVars

\* Atomic<uint64_t>::compareExchange(test, newValue): stores newValue when the
\* value equals test; returns the value found.
CompareExchangeStored(value, test, newValue) ==
    IF value = test THEN newValue ELSE value

\* Variant: the loop body stores the timestamp without comparing.
StoreStep ==
    /\ pc = "updateClusterTime"
    /\ currentClusterTime < clientLease
    /\ clusterTime' = clientLease
    /\ currentClusterTime' = clientLease
    /\ UNCHANGED recoveryVars
    /\ UNCHANGED <<pc, request, replySent, clientLease, logHead, headOfLog,
                   recoverThrew, exception, wasNormal, successful, finishedCalls,
                   finishedSuccess, cancelRecovery, locksRegrabbed, orphansRemoved>>
    /\ UNCHANGED <<tablets, indexlets>>
    /\ UNCHANGED migrationVars

\* One iteration of
\*   while (currentClusterTime < clientLease.timestamp)
\*       currentClusterTime = clusterTime.compareExchange(currentClusterTime,
\*                                                        clientLease.timestamp);
CompareExchangeStep ==
    /\ pc = "updateClusterTime"
    /\ currentClusterTime < clientLease
    /\ clusterTime' = CompareExchangeStored(clusterTime, currentClusterTime, clientLease)
    /\ currentClusterTime' = clusterTime
    /\ UNCHANGED recoveryVars
    /\ UNCHANGED <<pc, request, replySent, clientLease, logHead, headOfLog,
                   recoverThrew, exception, wasNormal, successful, finishedCalls,
                   finishedSuccess, cancelRecovery, locksRegrabbed, orphansRemoved>>
    /\ UNCHANGED <<tablets, indexlets>>
    /\ UNCHANGED migrationVars

\* Variant: the head is rolled over without waiting for the loop to end.
RollHeadOverEarly ==
    /\ pc = "updateClusterTime"
    /\ logHead' = logHead + 1
    /\ headOfLog' = logHead + 1
    /\ pc' = "startRpcs"
    /\ UNCHANGED recoveryVars
    /\ UNCHANGED <<request, replySent, clientLease, currentClusterTime,
                   recoverThrew, exception, wasNormal, successful, finishedCalls,
                   finishedSuccess, cancelRecovery, locksRegrabbed, orphansRemoved>>
    /\ UNCHANGED <<tablets, indexlets, clusterTime>>
    /\ UNCHANGED migrationVars

\* The loop ends; headOfLog = objectManager.getLog()->rollHeadOver().
RollHeadOver ==
    /\ pc = "updateClusterTime"
    /\ ~(currentClusterTime < clientLease)
    /\ logHead' = logHead + 1
    /\ headOfLog' = logHead + 1
    /\ pc' = "startRpcs"
    /\ UNCHANGED recoveryVars
    /\ UNCHANGED <<request, replySent, clientLease, currentClusterTime,
                   recoverThrew, exception, wasNormal, successful, finishedCalls,
                   finishedSuccess, cancelRecovery, locksRegrabbed, orphansRemoved>>
    /\ UNCHANGED <<tablets, indexlets, clusterTime>>
    /\ UNCHANGED migrationVars

\* ------------------------------------------------- recover helper: scoreboard
\* The scoreboard the helper works on, as one value.
Scoreboard ==
    [replicas |-> replicas, tasks |-> tasks, runningSet |-> runningSet,
     activeRequests |-> activeRequests, grdIssued |-> grdIssued]

\* task.construct(..., replica); replica.state = WAITING;
\* runningSet.insert(replica.segmentId)
StartTask(sb, k, i) ==
    [sb EXCEPT !.tasks[k] = i,
               !.replicas[i].state = "WAITING",
               !.runningSet = @ \cup {sb.replicas[i].segmentId},
               !.grdIssued[i] = @ + 1]

\* Variant: replicas whose segment is in flight are not skipped.
SkipNothing(reps, running, it) == it

\* while (replicaIt != replicasEnd && contains(runningSet, replicaIt->segmentId))
\*     ++replicaIt;
RECURSIVE SkipRunning(_, _, _)
SkipRunning(reps, running, it) ==
    IF it <= Len(reps) /\ reps[it].segmentId \in running
    THEN SkipRunning(reps, running, it + 1)
    ELSE it

\* The initial round: foreach task slot, start the replica under replicaIt and
\* move replicaIt past the replicas whose segment is in flight; stop at the end
\* of the list.
RECURSIVE StartInitialTasks(_, _, _)
StartInitialTasks(sb, k, replicaIt) ==
    IF k > W \/ replicaIt > Len(sb.replicas) THEN sb
    ELSE LET started == [StartTask(sb, k, replicaIt) EXCEPT !.activeRequests = @ + 1]
         IN StartInitialTasks(started, k + 1,
                SkipRunning(started.replicas, started.runningSet, replicaIt + 1))

\* Variant: only the replica that was fetched is marked OK.
MarkWaitingOk(reps, segmentId) ==
    [i \in 1..Len(reps) |->
        IF reps[i].segmentId = segmentId /\ reps[i].state = "WAITING"
        THEN [reps[i] EXCEPT !.state = "OK"]
        ELSE reps[i]]

\* Variant: a replica that has FAILED keeps that state.
MarkUnfailedOk(reps, segmentId) ==
    [i \in 1..Len(reps) |->
        IF reps[i].segmentId = segmentId /\ reps[i].state # "FAILED"
        THEN [reps[i] EXCEPT !.state = "OK"]
        ELSE reps[i]]

\* Mark this and any other entries for this segment as OK.
MarkSegmentOk(reps, segmentId) ==
    [i \in 1..Len(reps) |->
        IF reps[i].segmentId = segmentId THEN [reps[i] EXCEPT !.state = "OK"]
        ELSE reps[i]]

\* Variant: a failure marks every replica of the segment FAILED.
MarkSegmentFailed(reps, i) ==
    [j \in 1..Len(reps) |->
        IF reps[j].segmentId = reps[i].segmentId
        THEN [reps[j] EXCEPT !.state = "FAILED"]
        ELSE reps[j]]

\* task->replica.state = Replica::State::FAILED in the three catch blocks.
MarkReplicaFailed(reps, i) == [reps EXCEPT ![i].state = "FAILED"]

\* move notStarted up as far as possible
RECURSIVE AdvanceNotStarted(_, _)
AdvanceNotStarted(reps, it) ==
    IF it <= Len(reps) /\ reps[it].state # "NOT_STARTED"
    THEN AdvanceNotStarted(reps, it + 1)
    ELSE it

\* Find the next NOT_STARTED entry that isn't in-flight from another entry;
\* Len + 1 when the search reaches the end (goto outOfHosts).
RECURSIVE NextCandidate(_, _, _)
NextCandidate(reps, running, it) ==
    IF it > Len(reps) THEN it
    ELSE IF reps[it].state # "NOT_STARTED" \/ reps[it].segmentId \in running
         THEN NextCandidate(reps, running, it + 1)
         ELSE it

\* Variant: a slot given up is not counted off activeRequests.
RestartSlotKeepCount(sb, k, from) ==
    LET cleared == [sb EXCEPT !.tasks[k] = 0]
        next == NextCandidate(cleared.replicas, cleared.runningSet, from)
    IN IF next <= Len(cleared.replicas)
       THEN StartTask(cleared, k, next)
       ELSE cleared

\* After task.destroy(): restart the slot with the next candidate, or give the
\* slot up and decrement activeRequests.
RestartSlot(sb, k, from) ==
    LET cleared == [sb EXCEPT !.tasks[k] = 0]
        next == NextCandidate(cleared.replicas, cleared.runningSet, from)
    IN IF next <= Len(cleared.replicas)
       THEN StartTask(cleared, k, next)
       ELSE [cleared EXCEPT !.activeRequests = @ - 1]

\* Variant: the catch blocks leave the segment id in runningSet.
CompleteTaskKeepRunning(sb, k, ok) ==
    LET i == sb.tasks[k]
        segmentId == sb.replicas[i].segmentId
    IN [sb EXCEPT !.runningSet = IF ok THEN @ \ {segmentId} ELSE @,
                  !.replicas = IF ok THEN MarkSegmentOk(@, segmentId)
                               ELSE MarkReplicaFailed(@, i)]

\* The body of the event loop for the ready task in slot k: the try block ran
\* to its end (ok) or one of the catch blocks ran.
CompleteTask(sb, k, ok) ==
    LET i == sb.tasks[k]
        segmentId == sb.replicas[i].segmentId
    IN [sb EXCEPT !.runningSet = @ \ {segmentId},
                  !.replicas = IF ok THEN MarkSegmentOk(@, segmentId)
                               ELSE MarkReplicaFailed(@, i)]

\* detectSegmentRecoveryFailure: one pass over the list, OK erases the segment
\* id from failures and FAILED inserts it; the result is the failures set.
RECURSIVE FailuresAfter(_, _, _)
FailuresAfter(reps, i, failures) ==
    IF i > Len(reps) THEN failures
    ELSE FailuresAfter(reps, i + 1,
            CASE reps[i].state = "OK" -> failures \ {reps[i].segmentId}
              [] reps[i].state = "FAILED" -> failures \cup {reps[i].segmentId}
              [] OTHER -> failures)

\* Variant: the check never throws.
DetectNothing(reps) == FALSE

DetectSegmentRecoveryFailure(reps) == FailuresAfter(reps, 1, {}) # {}

SetScoreboard(sb) ==
    /\ replicas' = sb.replicas
    /\ tasks' = sb.tasks
    /\ runningSet' = sb.runningSet
    /\ activeRequests' = sb.activeRequests
    /\ grdIssued' = sb.grdIssued

handlerIdle == <<request, replySent, clientLease, currentClusterTime, logHead,
                 headOfLog, recoverThrew, exception, wasNormal, successful,
                 finishedCalls, finishedSuccess, cancelRecovery, locksRegrabbed,
                 orphansRemoved>>

\* Start RPCs (the initial round of the helper).
StartRpcs ==
    /\ pc = "startRpcs"
    /\ SetScoreboard(StartInitialTasks(Scoreboard, 1, notStarted))
    /\ pc' = "eventLoop"
    /\ UNCHANGED <<notStarted, fetchFailed, replayCount, sideLog, sideLogCommits,
                   log, hashTable>>
    /\ UNCHANGED handlerIdle
    /\ UNCHANGED <<tablets, indexlets, clusterTime>>
    /\ UNCHANGED migrationVars

\* A ready task whose segment passed the integrity check and was replayed.
TaskReplayed(k) ==
    /\ pc = "eventLoop"
    /\ activeRequests > 0
    /\ tasks[k] # 0
    /\ LET i == tasks[k]
           segmentId == replicas[i].segmentId
           done == CompleteTask(Scoreboard, k, TRUE)
           from == AdvanceNotStarted(done.replicas, notStarted)
       IN /\ SetScoreboard(RestartSlot(done, k, from))
          /\ notStarted' = from
          /\ replayCount' = [replayCount EXCEPT ![segmentId] = @ + 1]
          /\ sideLog' = sideLog \cup {segmentId}
          /\ hashTable' = hashTable \cup {segmentId}
    /\ UNCHANGED <<fetchFailed, sideLogCommits, log>>
    /\ UNCHANGED <<pc>>
    /\ UNCHANGED handlerIdle
    /\ UNCHANGED <<tablets, indexlets, clusterTime>>
    /\ UNCHANGED migrationVars

\* A ready task that ends in one of the three catch blocks
\* (SegmentIteratorException, ServerNotUpException, ClientException).
TaskFailed(k) ==
    /\ pc = "eventLoop"
    /\ activeRequests > 0
    /\ tasks[k] # 0
    /\ LET i == tasks[k]
           done == CompleteTask(Scoreboard, k, FALSE)
           from == AdvanceNotStarted(done.replicas, notStarted)
       IN /\ SetScoreboard(RestartSlot(done, k, from))
          /\ notStarted' = from
          /\ fetchFailed' = fetchFailed \cup {i}
    /\ UNCHANGED <<replayCount, sideLog, sideLogCommits, log, hashTable>>
    /\ UNCHANGED <<pc>>
    /\ UNCHANGED handlerIdle
    /\ UNCHANGED <<tablets, indexlets, clusterTime>>
    /\ UNCHANGED migrationVars

\* The event loop has ended: detectSegmentRecoveryFailure, then
\* sideLog.commit(); back in the handler the indexlets are installed and
\* successful = true.  SegmentRecoveryFailedException unwinds the helper
\* (the side log is destroyed uncommitted) and is caught by the handler.
RECURSIVE InstallIndexlets(_, _, _)
InstallIndexlets(map, list, i) ==
    IF i > Len(list) THEN map
    ELSE InstallIndexlets(AddIndexlet(map, list[i], "RECOVERING"), list, i + 1)

\* Variant: the side log is committed before the replicas are checked.
FinishRecoverCommitFirst ==
    /\ pc = "eventLoop"
    /\ activeRequests = 0
    /\ sideLogCommits' = sideLogCommits + 1
    /\ log' = log \cup sideLog
    /\ sideLog' = {}
    /\ IF DetectSegmentRecoveryFailure(replicas)
       THEN /\ recoverThrew' = "SegmentRecoveryFailedException"
            /\ UNCHANGED <<indexlets, successful>>
       ELSE /\ indexlets' = InstallIndexlets(indexlets, request.indexlet, 1)
            /\ successful' = TRUE
            /\ UNCHANGED recoverThrew
    /\ pc' = "report"
    /\ UNCHANGED <<replicas, tasks, runningSet, activeRequests, notStarted,
                   grdIssued, fetchFailed, replayCount, hashTable>>
    /\ UNCHANGED <<request, replySent, clientLease, currentClusterTime, logHead,
                   headOfLog, exception, wasNormal, finishedCalls, finishedSuccess,
                   cancelRecovery, locksRegrabbed, orphansRemoved>>
    /\ UNCHANGED <<tablets, clusterTime>>
    /\ UNCHANGED migrationVars

FinishRecover ==
    /\ pc = "eventLoop"
    /\ activeRequests = 0
    /\ IF DetectSegmentRecoveryFailure(replicas)
       THEN /\ recoverThrew' = "SegmentRecoveryFailedException"
            /\ sideLog' = {}
            /\ UNCHANGED <<sideLogCommits, log, indexlets, successful>>
       ELSE /\ sideLogCommits' = sideLogCommits + 1
            /\ log' = log \cup sideLog
            /\ sideLog' = {}
            /\ indexlets' = InstallIndexlets(indexlets, request.indexlet, 1)
            /\ successful' = TRUE
            /\ UNCHANGED recoverThrew
    /\ pc' = "report"
    /\ UNCHANGED <<replicas, tasks, runningSet, activeRequests, notStarted,
                   grdIssued, fetchFailed, replayCount, hashTable>>
    /\ UNCHANGED <<request, replySent, clientLease, currentClusterTime, logHead,
                   headOfLog, exception, wasNormal, finishedCalls, finishedSuccess,
                   cancelRecovery, locksRegrabbed, orphansRemoved>>
    /\ UNCHANGED <<tablets, clusterTime>>
    /\ UNCHANGED migrationVars

\* CoordinatorClient::recoveryMasterFinished(context, recoveryId, serverId,
\*                                           &recoveryPartition, successful)
RecoveryMasterFinished ==
    /\ pc = "report"
    /\ finishedCalls' = finishedCalls + 1
    /\ finishedSuccess' = Append(finishedSuccess, successful)
    /\ pc' = "waitCoordinator"
    /\ UNCHANGED recoveryVars
    /\ UNCHANGED <<request, replySent, clientLease, currentClusterTime, logHead,
                   headOfLog, recoverThrew, exception, wasNormal, successful,
                   cancelRecovery, locksRegrabbed, orphansRemoved>>
    /\ UNCHANGED <<tablets, indexlets, clusterTime>>
    /\ UNCHANGED migrationVars

\* The loop that marks the recovered tablets NORMAL; a tablet that is not
\* RECOVERING ends it with FatalError.
RECURSIVE NormalizeTablets(_, _, _)
NormalizeTablets(map, list, i) ==
    IF i > Len(list) THEN [map |-> map, changed |-> TRUE]
    ELSE IF ~ChangeStateOk(map, list[i], "RECOVERING")
         THEN [map |-> map, changed |-> FALSE]
         ELSE NormalizeTablets(ChangeState(map, list[i], "RECOVERING", "NORMAL"),
                               list, i + 1)

RECURSIVE NormalizeIndexlets(_, _, _)
NormalizeIndexlets(map, list, i) ==
    IF i > Len(list) THEN [map |-> map, changed |-> TRUE]
    ELSE IF ~IndexletChangeStateOk(map, list[i], "RECOVERING")
         THEN [map |-> map, changed |-> FALSE]
         ELSE NormalizeIndexlets(
                  IndexletChangeState(map, list[i], "RECOVERING", "NORMAL"),
                  list, i + 1)

RECURSIVE DeleteTablets(_, _, _)
DeleteTablets(map, list, i) ==
    IF i > Len(list) THEN map
    ELSE DeleteTablets(DeleteTablet(map, list[i]), list, i + 1)

RECURSIVE DeleteIndexlets(_, _, _)
DeleteIndexlets(map, list, i) ==
    IF i > Len(list) THEN map
    ELSE DeleteIndexlets(DeleteIndexlet(map, list[i]), list, i + 1)

\* if (!cancelRecovery): regrab the transaction locks, mark the tablets and
\* the indexlets NORMAL.
BeginServing ==
    LET t == NormalizeTablets(tablets, request.tablet, 1)
        x == NormalizeIndexlets(indexlets, request.indexlet, 1)
    IN /\ locksRegrabbed' = TRUE
       /\ tablets' = t.map
       /\ indexlets' = IF t.changed THEN x.map ELSE indexlets
       /\ IF t.changed /\ x.changed
          THEN pc' = "done" /\ UNCHANGED exception
          ELSE pc' = "threw" /\ exception' = "FatalError"
       /\ UNCHANGED <<hashTable, orphansRemoved>>

\* Variant: the cancel branch leaves the tablets in the map.
AbortRecoveryKeepTablets ==
    /\ indexlets' = DeleteIndexlets(indexlets, request.indexlet, 1)
    /\ hashTable' = {}
    /\ orphansRemoved' = TRUE
    /\ pc' = "done"
    /\ UNCHANGED <<tablets, exception, locksRegrabbed>>

\* else: delete the tablets and indexlets of the partition and remove the
\* objects no tablet covers any more.
AbortRecovery ==
    /\ tablets' = DeleteTablets(tablets, request.tablet, 1)
    /\ indexlets' = DeleteIndexlets(indexlets, request.indexlet, 1)
    /\ hashTable' = {}
    /\ orphansRemoved' = TRUE
    /\ pc' = "done"
    /\ UNCHANGED <<exception, locksRegrabbed>>

\* The coordinator's reply to recoveryMasterFinished and the rest of the
\* handler.
CoordinatorReply(cancel) ==
    /\ pc = "waitCoordinator"
    /\ cancelRecovery' = cancel
    /\ IF ~cancel THEN BeginServing ELSE AbortRecovery
    /\ wasNormal' = SeenNormal(tablets')
    /\ UNCHANGED <<replicas, tasks, runningSet, activeRequests, notStarted,
                   grdIssued, fetchFailed, replayCount, sideLog, sideLogCommits,
                   log>>
    /\ UNCHANGED <<request, replySent, clientLease, currentClusterTime, logHead,
                   headOfLog, recoverThrew, successful, finishedCalls,
                   finishedSuccess>>
    /\ UNCHANGED clusterTime
    /\ UNCHANGED migrationVars

\* --------------------------------------------- concurrent service threads
\* updateClusterTime(timestamp): clusterTime advances to max(current, observed).
UpdateClusterTime(timestamp) == Max(clusterTime, timestamp)

\* MasterService::write of a linearizable request: updateClusterTime with the
\* lease's timestamp.
Write(timestamp) ==
    /\ clusterTime' = UpdateClusterTime(timestamp)
    /\ clusterTime' # clusterTime
    /\ UNCHANGED recoveryVars
    /\ UNCHANGED handlerVars
    /\ UNCHANGED <<tablets, indexlets>>
    /\ UNCHANGED migrationVars

\* MasterService::txPrepare: updateClusterTime(reqHdr->lease.timestamp).
TxPrepare(timestamp) ==
    /\ clusterTime' = UpdateClusterTime(timestamp)
    /\ clusterTime' # clusterTime
    /\ UNCHANGED recoveryVars
    /\ UNCHANGED handlerVars
    /\ UNCHANGED <<tablets, indexlets>>
    /\ UNCHANGED migrationVars

\* ------------------------------------------------------------ specification
Next ==
    \/ RecoverRpc
    \/ InstallTablets
    \/ \E timestamp \in 0..MaxTime : GetLeaseInfoWait(timestamp)
    \/ CompareExchangeStep
    \/ RollHeadOver
    \/ StartRpcs
    \/ \E k \in 1..W : TaskReplayed(k)
    \/ \E k \in 1..W : TaskFailed(k)
    \/ FinishRecover
    \/ RecoveryMasterFinished
    \/ \E cancel \in BOOLEAN : CoordinatorReply(cancel)

\* The Recover request alone on the master, with every replica list.
Spec == Init /\ [][Next]_vars

\* A turn of the event loop that finds a task ready.
TaskReady == \E k \in 1..W : TaskReplayed(k) \/ TaskFailed(k)

\* The Recover request for one tablet, with the replica lists up to one longer
\* than the task slots and every GetRecoveryData RPC becoming ready in the
\* end: the event loop is one thread that polls the slots over and over, so while
\* tasks are in flight it comes to process one.
InitTerminates ==
    /\ Init
    /\ request.tablet = <<Range(1, 0, 1)>>
    /\ Len(request.replicas) <= W + 1
    /\ tablets = {}

SpecTerminates == InitTerminates /\ [][Next]_vars /\ WF_vars(TaskReady)

\* The Recover request with linearizable writes and txPrepares running on
\* other service threads; the replica lists are short.
InitConcurrent == Init /\ Len(request.replicas) <= MaxShortReplicas

NextConcurrent ==
    \/ Next
    \/ \E timestamp \in 0..MaxTime : Write(timestamp)
    \/ \E timestamp \in 0..MaxTime : TxPrepare(timestamp)

SpecConcurrent == InitConcurrent /\ [][NextConcurrent]_vars

\* ------------------------------------- detectSegmentRecoveryFailure on its own
\* Replica lists in which every replica is OK or FAILED, in every order.
CheckedReplicaLists ==
    UNION {{[i \in 1..Len(r) |-> [r[i] EXCEPT !.state = st[i]]] :
               st \in [1..Len(r) -> {"OK", "FAILED"}]} :
           r \in ReplicaListsUpTo(MaxDetectReplicas)}

InitDetect ==
    /\ pc = "detect"
    /\ request = [tablet |-> <<>>, indexlet |-> <<>>, replicas |-> <<>>]
    /\ replySent = FALSE
    /\ tablets = {}
    /\ indexlets = {}
    /\ clusterTime = 0
    /\ clientLease = -1
    /\ currentClusterTime = 0
    /\ logHead = 1
    /\ headOfLog = -1
    /\ replicas \in CheckedReplicaLists
    /\ tasks = [k \in 1..W |-> 0]
    /\ runningSet = {}
    /\ activeRequests = 0
    /\ notStarted = 1
    /\ grdIssued = <<>>
    /\ fetchFailed = {}
    /\ replayCount = <<>>
    /\ sideLog = {}
    /\ sideLogCommits = 0
    /\ log = {}
    /\ hashTable = {}
    /\ recoverThrew = "none"
    /\ exception = "none"
    /\ wasNormal = {}
    /\ successful = FALSE
    /\ finishedCalls = 0
    /\ finishedSuccess = <<>>
    /\ cancelRecovery = FALSE
    /\ locksRegrabbed = FALSE
    /\ orphansRemoved = FALSE
    /\ MigrationAtRest
    /\ CoordinatorAtRest
    /\ ServiceAtRest

\* detectSegmentRecoveryFailure(masterId, partitionId, replicas) returns or
\* throws.
DetectCall ==
    /\ pc = "detect"
    /\ recoverThrew' = IF DetectSegmentRecoveryFailure(replicas)
                       THEN "SegmentRecoveryFailedException" ELSE "none"
    /\ pc' = "detected"
    /\ UNCHANGED <<replicas, tasks, runningSet, activeRequests, notStarted,
                   grdIssued, fetchFailed, replayCount, sideLog, sideLogCommits,
                   log, hashTable>>
    /\ UNCHANGED <<request, replySent, clientLease, currentClusterTime, logHead,
                   headOfLog, exception, wasNormal, successful, finishedCalls,
                   finishedSuccess, cancelRecovery, locksRegrabbed, orphansRemoved>>
    /\ UNCHANGED <<tablets, indexlets, clusterTime>>
    /\ UNCHANGED migrationVars

NextDetect == DetectCall

SpecDetect == InitDetect /\ [][NextDetect]_vars

\* ------------------------------------------------ tablet migration: helpers
\* TabletManager::getTablet(tableId, startKeyHash, endKeyHash): the tablet with
\* exactly this range, in any state.
HasTablet(map, r) ==
    \E t \in map : /\ t.tableId = r.tableId
                   /\ t.startKeyHash = r.startKeyHash
                   /\ t.endKeyHash = r.endKeyHash

\* TabletManager::getTablet(tableId, keyHash, &tablet): the tablet that holds
\* the key hash.
Containing(map, tableId, keyHash) ==
    {t \in map : /\ t.tableId = tableId
                 /\ t.startKeyHash <= keyHash
                 /\ keyHash <= t.endKeyHash}

RequestRange == Range(reqHdr.tableId, reqHdr.firstKeyHash, reqHdr.lastKeyHash)

\* Log entries: [type, tableId, keyHash, version, size, ref]; ref is the
\* entry's Log::Reference, its index in the log.
Entry(type, key, version, size, ref) ==
    [type |-> type, tableId |-> key[1], keyHash |-> key[2],
     version |-> version, size |-> size, ref |-> ref]

RECURSIVE SegmentBytes(_, _)
SegmentBytes(seg, i) ==
    IF i > Len(seg) THEN 0 ELSE seg[i].size + SegmentBytes(seg, i + 1)

\* Segment::append succeeds when the entry fits.
Fits(seg, e) == SegmentBytes(seg, 1) + e.size <= SegmentCapacity

\* ObjectManager::replaySegment on the new owner: an object replaces what the
\* hash table holds for its key when it is newer; a tombstone replaces an
\* object it is at least as new as.
ReplayEntry(objs, e) ==
    LET key == <<e.tableId, e.keyHash>>
    IN CASE e.type = "OBJ" /\ e.version > objs[key].version ->
                [objs EXCEPT ![key] = [version |-> e.version, type |-> "OBJ"]]
         [] e.type = "OBJTOMB" /\ e.version >= objs[key].version ->
                [objs EXCEPT ![key] = [version |-> e.version, type |-> "OBJTOMB"]]
         [] OTHER -> objs

RECURSIVE ReplaySegment(_, _, _)
ReplaySegment(objs, seg, i) ==
    IF i > Len(seg) THEN objs
    ELSE ReplaySegment(ReplayEntry(objs, seg[i]), seg, i + 1)

\* ObjectManager::removeOrphanedObjects: the hash table drops the objects no
\* tablet covers.
RemoveOrphanedObjects(map, om) ==
    [key \in Keys |-> IF Containing(map, key[1], key[2]) = {} THEN 0 ELSE om[key]]

\* MasterService::prepForMigration on the new owner.
PrepForMigration(map, r) ==
    IF AddTabletOk(map, r)
    THEN [map |-> AddTablet(map, r, "RECOVERING"), status |-> "OK"]
    ELSE IF /\ Containing(map, r.tableId, r.startKeyHash) = {}
            /\ Containing(map, r.tableId, r.endKeyHash) = {}
         THEN [map |-> map, status |-> "RETRY"]
         ELSE [map |-> map, status |-> "OBJECT_EXISTS"]

\* Variant: a tablet that is there is made NORMAL whatever its state.
TakeTabletOwnershipAnyState(map, r) ==
    IF AddTabletOk(map, r)
    THEN [map |-> AddTablet(map, r, "NORMAL"), status |-> "OK"]
    ELSE IF HasTablet(map, r)
         THEN [map |-> (map \ {WithState(r, StateOf(map, r))})
                          \cup {WithState(r, "NORMAL")},
               status |-> "OK"]
         ELSE [map |-> map, status |-> "INTERNAL_ERROR"]

TakeTabletOwnershipNoShortcut(map, r) ==
    IF AddTabletOk(map, r)
    THEN [map |-> AddTablet(map, r, "NORMAL"), status |-> "OK"]
    ELSE IF ChangeStateOk(map, r, "RECOVERING")
         THEN [map |-> ChangeState(map, r, "RECOVERING", "NORMAL"),
               status |-> "OK"]
         ELSE [map |-> map, status |-> "INTERNAL_ERROR"]

\* MasterService::takeTabletOwnership on the new owner.
TakeTabletOwnership(map, r) ==
    IF AddTabletOk(map, r)
    THEN [map |-> AddTablet(map, r, "NORMAL"), status |-> "OK"]
    ELSE IF HasTablet(map, r) /\ StateOf(map, r) = "NORMAL"
         THEN [map |-> map, status |-> "OK"]
         ELSE IF ChangeStateOk(map, r, "RECOVERING")
              THEN [map |-> ChangeState(map, r, "RECOVERING", "NORMAL"),
                    status |-> "OK"]
              ELSE [map |-> map, status |-> "INTERNAL_ERROR"]

\* MasterService::receiveMigrationData on the new owner: the status it returns
\* for a well-formed segment.
ReceiveMigrationDataStatus(map, tableId, firstKeyHash) ==
    LET found == Containing(map, tableId, firstKeyHash)
    IN IF found = {} THEN "UNKNOWN_TABLET"
       ELSE IF \E t \in found : t.state # "RECOVERING" THEN "INTERNAL_ERROR"
       ELSE "OK"

\* What a scan step works on, as one value.
MigrationState ==
    [transferSeg |-> transferSeg, appended |-> appended, received |-> received,
     destObjects |-> destObjects, destLogHead |-> destLogHead, steps |-> steps,
     status |-> "OK"]

SetMigration(m) ==
    /\ transferSeg' = m.transferSeg
    /\ appended' = m.appended
    /\ received' = m.received
    /\ destObjects' = m.destObjects
    /\ destLogHead' = m.destLogHead
    /\ steps' = m.steps

\* A step is recorded once however often it repeats in a row.
AppendStep(s, label) ==
    IF Len(s) > 0 /\ s[Len(s)] = label THEN s ELSE Append(s, label)

\* transferSeg->close(); MasterClient::receiveMigrationData(...); the new owner
\* replays the segment into a side log and commits it.  A status other than OK
\* comes back as an exception.
SendSegment(m) ==
    LET status == ReceiveMigrationDataStatus(destTablets, reqHdr.tableId,
                                             reqHdr.firstKeyHash)
        sent == [m EXCEPT !.steps = Append(@, "receiveMigrationData")]
    IN IF status = "OK"
       THEN [sent EXCEPT !.received = Append(@, m.transferSeg),
                         !.destObjects = ReplaySegment(@, m.transferSeg, 1),
                         !.destLogHead = @ + 1,
                         !.transferSeg = <<>>]
       ELSE [sent EXCEPT !.status = status]

\* Variant: objects are sent whether or not the hash table points at them.
SelectedWithoutLiveness(i) ==
    LET e == logEntries[i]
    IN /\ e.type \in {"OBJ", "OBJTOMB", "TXDECISION"}
       /\ e.tableId = reqHdr.tableId
       /\ ~(e.keyHash < reqHdr.firstKeyHash \/ e.keyHash > reqHdr.lastKeyHash)

\* migrateSingleLogEntry: the tests an entry passes before it is appended.
Selected(i) ==
    LET e == logEntries[i]
    IN /\ e.type \in {"OBJ", "OBJTOMB", "TXDECISION"}
       /\ e.tableId = reqHdr.tableId
       /\ ~(e.keyHash < reqHdr.firstKeyHash \/ e.keyHash > reqHdr.lastKeyHash)
       /\ e.type = "OBJ" => objectMap[<<e.tableId, e.keyHash>>] = e.ref

\* Variant: the entry that filled the segment is not put into the fresh one.
MigrateSingleLogEntryDropOnRollover(m, i) ==
    LET e == logEntries[i]
    IN IF ~Selected(i) THEN m
       ELSE IF Fits(m.transferSeg, e)
            THEN [m EXCEPT !.transferSeg = Append(@, e),
                           !.appended = @ \cup {e.ref}]
            ELSE LET sent == SendSegment(m)
                 IN IF sent.status # "OK" THEN sent
                    ELSE IF Fits(<<>>, e)
                         THEN sent
                         ELSE [sent EXCEPT !.status = "INTERNAL_ERROR"]

\* Variant: an entry that fits no segment is left out and the scan goes on.
MigrateSingleLogEntrySkipLarge(m, i) ==
    LET e == logEntries[i]
    IN IF ~Selected(i) THEN m
       ELSE IF Fits(m.transferSeg, e)
            THEN [m EXCEPT !.transferSeg = Append(@, e),
                           !.appended = @ \cup {e.ref}]
            ELSE LET sent == SendSegment(m)
                 IN IF sent.status # "OK" THEN sent
                    ELSE IF Fits(<<>>, e)
                         THEN [sent EXCEPT !.transferSeg = <<e>>,
                                           !.appended = @ \cup {e.ref}]
                         ELSE sent

\* migrateSingleLogEntry for the entry under the iterator.  An entry that does
\* not fit sends the current segment and goes into a fresh one; one that does
\* not fit an empty segment ends the migration with INTERNAL_ERROR.
MigrateSingleLogEntry(m, i) ==
    LET e == logEntries[i]
    IN IF ~Selected(i) THEN m
       ELSE IF Fits(m.transferSeg, e)
            THEN [m EXCEPT !.transferSeg = Append(@, e),
                           !.appended = @ \cup {e.ref}]
            ELSE LET sent == SendSegment(m)
                 IN IF sent.status # "OK" THEN sent
                    ELSE IF Fits(<<>>, e)
                         THEN [sent EXCEPT !.transferSeg = <<e>>,
                                           !.appended = @ \cup {e.ref}]
                         ELSE [sent EXCEPT !.status = "INTERNAL_ERROR"]

\* ServerRpcPool<>::getEarliestOutstandingEpoch: the lowest epoch of an RPC in
\* progress, the migrateTablet RPC among them.
EarliestOutstandingEpoch ==
    LET epochs == {r.epoch : r \in outstanding} \cup {rpcEpoch}
    IN CHOOSE m \in epochs : \A x \in epochs : m <= x

\* The version the next object written under key gets.
NextVersion(key) ==
    1 + SeqMax([i \in 1..Len(logEntries) |->
                   IF <<logEntries[i].tableId, logEntries[i].keyHash>> = key
                   THEN logEntries[i].version ELSE 0])

\* ------------------------------------------------ tablet migration: handler
\* The status of the two tests migrateTablet makes before it contacts anyone.
\* Variant: the test for a migration to itself comes first.
RequestStatusSelfFirst ==
    IF reqHdr.newOwnerMasterId = serverId THEN "REQUEST_FORMAT_ERROR"
    ELSE IF ~HasTablet(tablets, RequestRange) THEN "UNKNOWN_TABLET"
    ELSE "OK"

RequestStatus ==
    IF ~HasTablet(tablets, RequestRange) THEN "UNKNOWN_TABLET"
    ELSE IF reqHdr.newOwnerMasterId = serverId THEN "REQUEST_FORMAT_ERROR"
    ELSE "OK"

\* Variant: the request is rejected after prepForMigration went out.
RejectAfterPrep ==
    /\ respStatus' = RequestStatus
    /\ mpc' = "returned"
    /\ destTablets' = PrepForMigration(destTablets, RequestRange).map
    /\ steps' = Append(steps, "prepForMigration")
    /\ UNCHANGED <<newOwnerLogHead, logIt, destLogHead>>

\* respHdr->common.status = ...; return;
Reject ==
    /\ respStatus' = RequestStatus
    /\ mpc' = "returned"
    /\ UNCHANGED <<destTablets, steps, newOwnerLogHead, logIt, destLogHead>>

\* MasterClient::prepForMigration and MasterClient::getHeadOfLog (which rolls
\* the new owner's head over), then LogIterator it(*objectManager.getLog()).
\* A refusal of the new owner comes back as an exception.
Prepare ==
    LET prep == PrepForMigration(destTablets, RequestRange)
    IN /\ destTablets' = prep.map
       /\ IF prep.status = "OK"
          THEN /\ destLogHead' = destLogHead + 1
               /\ newOwnerLogHead' = destLogHead + 1
               /\ steps' = steps \o <<"prepForMigration", "getHeadOfLog">>
               /\ logIt' = 1
               /\ mpc' = "phase1"
               /\ UNCHANGED respStatus
          ELSE /\ steps' = Append(steps, "prepForMigration")
               /\ respStatus' = prep.status
               /\ mpc' = "returned"
               /\ UNCHANGED <<destLogHead, newOwnerLogHead, logIt>>

MigrateTabletRpc ==
    /\ mpc = "idle"
    /\ rpcEpoch' = currentEpoch
    /\ IF RequestStatus # "OK" THEN Reject ELSE Prepare
    /\ UNCHANGED <<reqHdr, logEntries, headSegmentStart, objectMap, transferSeg,
                   currentEpoch, epoch, outstanding, position, received,
                   destObjects, reassignCalls, appended, snapshotLive>>
    /\ UNCHANGED tablets
    /\ UNCHANGED recoverState

\* One iteration of a scan loop: migrateSingleLogEntry, then it.next().
ScanStep(label) ==
    LET m == MigrateSingleLogEntry(
                 [MigrationState EXCEPT !.steps = AppendStep(@, label)], logIt)
    IN /\ SetMigration(m)
       /\ IF m.status = "OK"
          THEN logIt' = logIt + 1 /\ UNCHANGED <<mpc, respStatus>>
          ELSE respStatus' = m.status /\ mpc' = "returned" /\ UNCHANGED logIt
       /\ UNCHANGED <<reqHdr, logEntries, headSegmentStart, objectMap,
                      newOwnerLogHead, currentEpoch, epoch, rpcEpoch,
                      outstanding, position, destTablets, reassignCalls,
                      snapshotLive>>
       /\ UNCHANGED tablets
       /\ UNCHANGED recoverState

\* for (; !it.onHead(); it.next())
Phase1Scan ==
    /\ mpc = "phase1"
    /\ logIt < headSegmentStart
    /\ ScanStep("phase1Scan")

\* Phase 2 begins: changeState(NORMAL, LOCKED_FOR_MIGRATION), whose result is
\* not looked at; epoch = incrementCurrentEpoch() - 1; the RPC's own epoch is
\* raised to epoch + 1.
LockTablet ==
    /\ mpc = "phase1"
    /\ ~(logIt < headSegmentStart)
    /\ tablets' = ChangeState(tablets, RequestRange, "NORMAL", "LOCKED_FOR_MIGRATION")
    /\ currentEpoch' = currentEpoch + 1
    /\ epoch' = currentEpoch
    /\ rpcEpoch' = currentEpoch + 1
    /\ steps' = steps \o <<"changeState", "incrementCurrentEpoch">>
    /\ mpc' = "epochWait"
    /\ UNCHANGED <<reqHdr, respStatus, logEntries, headSegmentStart, objectMap,
                   logIt, transferSeg, newOwnerLogHead, outstanding, position,
                   destTablets, destLogHead, received, destObjects,
                   reassignCalls, appended, snapshotLive>>
    /\ UNCHANGED recoverState

\* Variant: the head is marked without waiting for the running writes.
EpochBarrierNoWait ==
    /\ mpc = "epochWait"
    /\ position' = Len(logEntries) + 1
    /\ snapshotLive' = objectMap
    /\ steps' = steps \o <<"epochWait", "getHead">>
    /\ mpc' = "phase2"
    /\ UNCHANGED <<reqHdr, respStatus, logEntries, headSegmentStart, objectMap,
                   logIt, transferSeg, newOwnerLogHead, currentEpoch, epoch,
                   rpcEpoch, outstanding, destTablets, destLogHead, received,
                   destObjects, reassignCalls, appended>>
    /\ UNCHANGED tablets
    /\ UNCHANGED recoverState

\* The wait loop ends when getEarliestOutstandingEpoch() > epoch; then
\* position = getLog()->getHead() and it.refresh().
EpochBarrier ==
    /\ mpc = "epochWait"
    /\ EarliestOutstandingEpoch > epoch
    /\ position' = Len(logEntries) + 1
    /\ snapshotLive' = objectMap
    /\ steps' = steps \o <<"epochWait", "getHead">>
    /\ mpc' = "phase2"
    /\ UNCHANGED <<reqHdr, respStatus, logEntries, headSegmentStart, objectMap,
                   logIt, transferSeg, newOwnerLogHead, currentEpoch, epoch,
                   rpcEpoch, outstanding, destTablets, destLogHead, received,
                   destObjects, reassignCalls, appended>>
    /\ UNCHANGED tablets
    /\ UNCHANGED recoverState

\* for (; it.getPosition() < position; it.next())
Phase2Scan ==
    /\ mpc = "phase2"
    /\ logIt < position
    /\ ScanStep("phase2Scan")

\* Variant: the tablet is dropped as soon as the coordinator has been called.
ReassignTabletOwnershipAndDrop ==
    /\ mpc = "phase2"
    /\ ~(logIt < position)
    /\ LET m == IF transferSeg # <<>> THEN SendSegment(MigrationState)
                ELSE MigrationState
       IN IF m.status = "OK"
          THEN /\ SetMigration([m EXCEPT !.steps = Append(@, "reassignTabletOwnership")])
               /\ reassignCalls' = Append(reassignCalls,
                      [range |-> RequestRange,
                       newOwnerMasterId |-> reqHdr.newOwnerMasterId,
                       ctime |-> newOwnerLogHead])
               /\ mpc' = "waitReassign"
               /\ UNCHANGED respStatus
          ELSE /\ SetMigration(m)
               /\ respStatus' = m.status
               /\ mpc' = "returned"
               /\ UNCHANGED reassignCalls
    /\ tablets' = DeleteTablet(tablets, RequestRange)
    /\ UNCHANGED <<reqHdr, logEntries, headSegmentStart, objectMap, logIt,
                   newOwnerLogHead, currentEpoch, epoch, rpcEpoch, outstanding,
                   position, destTablets, snapshotLive>>
    /\ UNCHANGED recoverState

\* The scan is over: the last segment is sent when there is one, then
\* CoordinatorClient::reassignTabletOwnership is called with the new owner's
\* head as it was before the migration.
ReassignTabletOwnership ==
    /\ mpc = "phase2"
    /\ ~(logIt < position)
    /\ LET m == IF transferSeg # <<>> THEN SendSegment(MigrationState)
                ELSE MigrationState
       IN IF m.status = "OK"
          THEN /\ SetMigration([m EXCEPT !.steps = Append(@, "reassignTabletOwnership")])
               /\ reassignCalls' = Append(reassignCalls,
                      [range |-> RequestRange,
                       newOwnerMasterId |-> reqHdr.newOwnerMasterId,
                       ctime |-> newOwnerLogHead])
               /\ mpc' = "waitReassign"
               /\ UNCHANGED respStatus
          ELSE /\ SetMigration(m)
               /\ respStatus' = m.status
               /\ mpc' = "returned"
               /\ UNCHANGED reassignCalls
    /\ UNCHANGED <<reqHdr, logEntries, headSegmentStart, objectMap, logIt,
                   newOwnerLogHead, currentEpoch, epoch, rpcEpoch, outstanding,
                   position, destTablets, snapshotLive>>
    /\ UNCHANGED tablets
    /\ UNCHANGED recoverState

\* The coordinator handles reassignTabletOwnership: it has the new owner take
\* the tablet (takeTabletOwnership) and answers.
CoordinatorReassigns ==
    /\ mpc = "waitReassign"
    /\ destTablets' = TakeTabletOwnership(destTablets, RequestRange).map
    /\ mpc' = "dropTablet"
    /\ UNCHANGED <<reqHdr, respStatus, logEntries, headSegmentStart, objectMap,
                   logIt, transferSeg, newOwnerLogHead, currentEpoch, epoch,
                   rpcEpoch, outstanding, position, destLogHead, received,
                   destObjects, reassignCalls, steps, appended, snapshotLive>>
    /\ UNCHANGED tablets
    /\ UNCHANGED recoverState

\* tabletManager.deleteTablet(...); objectManager.removeOrphanedObjects()
DropTablet ==
    /\ mpc = "dropTablet"
    /\ tablets' = DeleteTablet(tablets, RequestRange)
    /\ objectMap' = RemoveOrphanedObjects(tablets', objectMap)
    /\ steps' = steps \o <<"deleteTablet", "removeOrphanedObjects">>
    /\ mpc' = "returned"
    /\ UNCHANGED <<reqHdr, respStatus, logEntries, headSegmentStart, logIt,
                   transferSeg, newOwnerLogHead, currentEpoch, epoch, rpcEpoch,
                   outstanding, position, destTablets, destLogHead, received,
                   destObjects, reassignCalls, appended, snapshotLive>>
    /\ UNCHANGED recoverState

\* ------------------------------------- tablet migration: other service threads
migrateLocals == <<mpc, reqHdr, respStatus, logIt, transferSeg, newOwnerLogHead,
                   epoch, rpcEpoch, position, destTablets, destLogHead,
                   received, destObjects, reassignCalls, steps, appended,
                   snapshotLive>>

\* A write or remove RPC arrives: it is given the current epoch, and the
\* object manager finds the tablet of its key NORMAL.
ClientRpcArrives(op, key, size) ==
    /\ Cardinality(outstanding) < MaxOutstanding
    /\ Len(logEntries) + 2 * (Cardinality(outstanding) + 1) <= MaxLogEntries
    /\ \E t \in Containing(tablets, key[1], key[2]) : t.state = "NORMAL"
    /\ [op |-> op, key |-> key, size |-> size, epoch |-> currentEpoch] \notin outstanding
    /\ outstanding' = outstanding \cup
           {[op |-> op, key |-> key, size |-> size, epoch |-> currentEpoch]}
    /\ UNCHANGED <<logEntries, headSegmentStart, objectMap, currentEpoch>>
    /\ UNCHANGED migrateLocals
    /\ UNCHANGED tablets
    /\ UNCHANGED recoverState

\* objectManager.writeObject: the new object is appended, with a tombstone for
\* the object it replaces, and the hash table points at it; the RPC is done.
WriteObject(r) ==
    /\ r \in outstanding
    /\ r.op = "write"
    /\ LET old == objectMap[r.key]
           ref == Len(logEntries) + 1
           object == Entry("OBJ", r.key, NextVersion(r.key), r.size, ref)
           tombstone == Entry("OBJTOMB", r.key, logEntries[old].version, 1, ref + 1)
       IN /\ logEntries' = IF old = 0 THEN Append(logEntries, object)
                           ELSE logEntries \o <<object, tombstone>>
          /\ objectMap' = [objectMap EXCEPT ![r.key] = ref]
    /\ outstanding' = outstanding \ {r}
    /\ UNCHANGED <<headSegmentStart, currentEpoch>>
    /\ UNCHANGED migrateLocals
    /\ UNCHANGED tablets
    /\ UNCHANGED recoverState

\* objectManager.removeObject: a tombstone for the live object is appended and
\* the hash table forgets the key; nothing happens when there is no object.
RemoveObject(r) ==
    /\ r \in outstanding
    /\ r.op = "remove"
    /\ LET old == objectMap[r.key]
           ref == Len(logEntries) + 1
       IN IF old = 0 THEN UNCHANGED <<logEntries, objectMap>>
          ELSE /\ logEntries' = Append(logEntries,
                       Entry("OBJTOMB", r.key, logEntries[old].version, 1, ref))
               /\ objectMap' = [objectMap EXCEPT ![r.key] = 0]
    /\ outstanding' = outstanding \ {r}
    /\ UNCHANGED <<headSegmentStart, currentEpoch>>
    /\ UNCHANGED migrateLocals
    /\ UNCHANGED tablets
    /\ UNCHANGED recoverState

\* A transaction record reaches the log: a prepared operation (txPrepare) or
\* a decision record.
TxRecordLogged(type, key) ==
    /\ Len(logEntries) + 2 * Cardinality(outstanding) + 1 <= MaxLogEntries
    /\ logEntries' = Append(logEntries, Entry(type, key, 0, 1, Len(logEntries) + 1))
    /\ UNCHANGED <<headSegmentStart, objectMap, currentEpoch, outstanding>>
    /\ UNCHANGED migrateLocals
    /\ UNCHANGED tablets
    /\ UNCHANGED recoverState

\* The head segment of the log fills up and a new head is opened.
RollLogHead ==
    /\ headSegmentStart <= Len(logEntries)
    /\ headSegmentStart' = Len(logEntries) + 1
    /\ UNCHANGED <<logEntries, objectMap, currentEpoch, outstanding>>
    /\ UNCHANGED migrateLocals
    /\ UNCHANGED tablets
    /\ UNCHANGED recoverState

\* ------------------------------------------ tablet migration: specification
InitMigration ==
    /\ pc = "idle"
    /\ request = [tablet |-> <<>>, indexlet |-> <<>>, replicas |-> <<>>]
    /\ replySent = FALSE
    /\ tablets \in MigrationTabletMaps
    /\ indexlets = {}
    /\ clusterTime = 0
    /\ clientLease = -1
    /\ currentClusterTime = 0
    /\ logHead = 1
    /\ headOfLog = -1
    /\ replicas = <<>>
    /\ tasks = [k \in 1..W |-> 0]
    /\ runningSet = {}
    /\ activeRequests = 0
    /\ notStarted = 1
    /\ grdIssued = <<>>
    /\ fetchFailed = {}
    /\ replayCount = <<>>
    /\ sideLog = {}
    /\ sideLogCommits = 0
    /\ log = {}
    /\ hashTable = {}
    /\ recoverThrew = "none"
    /\ exception = "none"
    /\ wasNormal = {}
    /\ successful = FALSE
    /\ finishedCalls = 0
    /\ finishedSuccess = <<>>
    /\ cancelRecovery = FALSE
    /\ locksRegrabbed = FALSE
    /\ orphansRemoved = FALSE
    /\ mpc = "idle"
    /\ reqHdr \in MigrateRequests
    /\ respStatus = "OK"
    /\ logEntries = <<>>
    /\ headSegmentStart = 1
    /\ objectMap = [key \in Keys |-> 0]
    /\ logIt = 1
    /\ transferSeg = <<>>
    /\ newOwnerLogHead = -1
    /\ currentEpoch = 1
    /\ epoch = -1
    /\ rpcEpoch = 0
    /\ outstanding = {}
    /\ position = -1
    /\ destTablets \in DestTabletMaps
    /\ destLogHead = 1
    /\ received = <<>>
    /\ destObjects = [key \in Keys |-> NoObject]
    /\ reassignCalls = <<>>
    /\ steps = <<>>
    /\ appended = {}
    /\ snapshotLive = <<>>
    /\ lastRpc = NoRpc
    /\ WritesAtRest
    /\ CoordinatorAtRest
    /\ ServiceAtRest

NextMigration ==
    \/ MigrateTabletRpc
    \/ Phase1Scan
    \/ LockTablet
    \/ EpochBarrier
    \/ Phase2Scan
    \/ ReassignTabletOwnership
    \/ CoordinatorReassigns
    \/ DropTablet
    \/ \E c \in ClientRpcs : ClientRpcArrives(c.op, c.key, c.size)
    \/ \E r \in outstanding : WriteObject(r)
    \/ \E r \in outstanding : RemoveObject(r)
    \/ \E x \in TxRecords : TxRecordLogged(x.type, x.key)
    \/ RollLogHead

SpecMigration == InitMigration /\ [][NextMigration]_vars

\* -------------------------- handlers served for the coordinator and masters
\* The ranges these RPCs name: two that overlap in part, one that contains
\* both, and the whole of another table.
RpcRanges == {Range(1, 0, 1), Range(1, 1, 2), Range(1, 0, MaxKeyHash),
              Range(2, 0, MaxKeyHash)}

\* The segments a ReceiveMigrationData request carries.
MigrationSegments ==
    {<<>>,
     <<Entry("OBJ", <<1, 0>>, 1, 1, 1)>>,
     <<Entry("OBJ", <<1, 0>>, 2, 1, 1), Entry("OBJTOMB", <<1, 0>>, 1, 1, 2)>>}

\* ReceiveMigrationData requests: the header fields, the segment, and the
\* size of the payload that follows the header, right or one byte too long.
ReceiveRequests ==
    {[tableId |-> t, firstKeyHash |-> h, segmentBytes |-> SegmentBytes(seg, 1),
      keyLength |-> 0, segment |-> seg,
      payloadSize |-> SegmentBytes(seg, 1) + extra] :
        t \in {1, 2}, h \in {0, MaxKeyHash}, seg \in MigrationSegments,
        extra \in {0, 1}}

\* PrepForIndexletMigration requests: [indexId, backingTableId].
IndexletRequests == {[indexId |-> 7, backingTableId |-> 2]}

\* MasterService::receiveMigrationData: the status, and the hash table after
\* the segment was replayed into a side log and the side log committed.
ReceiveMigrationData(map, objs, req) ==
    LET status == ReceiveMigrationDataStatus(map, req.tableId, req.firstKeyHash)
    IN IF status # "OK"
       THEN [status |-> status, objs |-> objs, committed |-> FALSE]
       ELSE IF req.payloadSize # req.segmentBytes + req.keyLength
            THEN [status |-> "REQUEST_FORMAT_ERROR", objs |-> objs,
                  committed |-> FALSE]
            ELSE [status |-> "OK", objs |-> ReplaySegment(objs, req.segment, 1),
                  committed |-> TRUE]

\* ObjectManager::removeOrphanedObjects on the new owner.
DestRemoveOrphanedObjects(map, objs) ==
    [key \in Keys |-> IF Containing(map, key[1], key[2]) = {} THEN NoObject
                      ELSE objs[key]]

migrateRest == <<mpc, reqHdr, respStatus, logEntries, headSegmentStart, logIt,
                 transferSeg, newOwnerLogHead, currentEpoch, epoch, rpcEpoch,
                 outstanding, position, reassignCalls, steps, appended,
                 snapshotLive>>
recoverRest == <<recoveryVars, handlerVars, clusterTime, writeVars,
                 coordinatorVars, serviceVars>>

\* The handler has answered.
Served(op, who, req, status) ==
    lastRpc' = [op |-> op, who |-> who, req |-> req, status |-> status]

\* MasterService::prepForMigration, on this master or on the new owner.
PrepForMigrationRpc(who, r) ==
    /\ IF who = "master"
       THEN LET prep == PrepForMigration(tablets, r)
            IN /\ tablets' = prep.map
               /\ Served("prepForMigration", who, r, prep.status)
               /\ UNCHANGED destTablets
       ELSE LET prep == PrepForMigration(destTablets, r)
            IN /\ destTablets' = prep.map
               /\ Served("prepForMigration", who, r, prep.status)
               /\ UNCHANGED tablets
    /\ UNCHANGED <<indexlets, objectMap, destLogHead, received, destObjects>>
    /\ UNCHANGED migrateRest
    /\ UNCHANGED recoverRest

\* MasterService::prepForIndexletMigration: the indexlet is added RECOVERING
\* and then the backing table's tablet [0, ~0] goes from NORMAL to RECOVERING;
\* the result of changeState is not looked at.
PrepForIndexletMigrationRpc(req) ==
    LET added == ~(\E x \in indexlets : x.id = req.indexId)
    IN /\ indexlets' = AddIndexlet(indexlets, req.indexId, "RECOVERING")
       /\ tablets' = IF added
                     THEN ChangeState(tablets,
                                      Range(req.backingTableId, 0, MaxKeyHash),
                                      "NORMAL", "RECOVERING")
                     ELSE tablets
       /\ Served("prepForIndexletMigration", "master", req,
                 IF added THEN "OK" ELSE "OBJECT_EXISTS")
       /\ UNCHANGED <<objectMap, destTablets, destLogHead, received, destObjects>>
       /\ UNCHANGED migrateRest
       /\ UNCHANGED recoverRest

\* Variant: the segment is replayed before the request is examined.
ReceiveMigrationDataRpcReplayFirst(req) ==
    LET result == ReceiveMigrationData(destTablets, destObjects, req)
    IN /\ Len(received) < MaxReceived
       /\ Served("receiveMigrationData", "newOwner", req, result.status)
       /\ destObjects' = ReplaySegment(destObjects, req.segment, 1)
       /\ received' = Append(received, req.segment)
       /\ destLogHead' = destLogHead + 1
       /\ UNCHANGED <<tablets, indexlets, objectMap, destTablets>>
       /\ UNCHANGED migrateRest
       /\ UNCHANGED recoverRest

\* MasterService::receiveMigrationData on the new owner.
ReceiveMigrationDataRpc(req) ==
    LET result == ReceiveMigrationData(destTablets, destObjects, req)
    IN /\ Len(received) < MaxReceived
       /\ Served("receiveMigrationData", "newOwner", req, result.status)
       /\ destObjects' = result.objs
       /\ IF result.committed
          THEN /\ received' = Append(received, req.segment)
               /\ destLogHead' = destLogHead + 1
          ELSE UNCHANGED <<received, destLogHead>>
       /\ UNCHANGED <<tablets, indexlets, objectMap, destTablets>>
       /\ UNCHANGED migrateRest
       /\ UNCHANGED recoverRest

\* MasterService::takeTabletOwnership, on this master or on the new owner.
TakeTabletOwnershipRpc(who, r) ==
    /\ IF who = "master"
       THEN LET take == TakeTabletOwnership(tablets, r)
            IN /\ tablets' = take.map
               /\ Served("takeTabletOwnership", who, r, take.status)
               /\ UNCHANGED destTablets
       ELSE LET take == TakeTabletOwnership(destTablets, r)
            IN /\ destTablets' = take.map
               /\ Served("takeTabletOwnership", who, r, take.status)
               /\ UNCHANGED tablets
    /\ UNCHANGED <<indexlets, objectMap, destLogHead, received, destObjects>>
    /\ UNCHANGED migrateRest
    /\ UNCHANGED recoverRest

\* MasterService::dropTabletOwnership, on this master or on the new owner:
\* deleteTablet, whatever the state, then removeOrphanedObjects.
DropTabletOwnershipRpc(who, r) ==
    /\ IF who = "master"
       THEN /\ tablets' = DeleteTablet(tablets, r)
            /\ objectMap' = RemoveOrphanedObjects(tablets', objectMap)
            /\ UNCHANGED <<destTablets, destObjects>>
       ELSE /\ destTablets' = DeleteTablet(destTablets, r)
            /\ destObjects' = DestRemoveOrphanedObjects(destTablets', destObjects)
            /\ UNCHANGED <<tablets, objectMap>>
    /\ Served("dropTabletOwnership", who, r, "OK")
    /\ UNCHANGED <<indexlets, destLogHead, received>>
    /\ UNCHANGED migrateRest
    /\ UNCHANGED recoverRest

\* A master that only serves the RPCs of a migration's new owner, in every
\* order.
RecoverAtRest ==
    /\ pc = "idle"
    /\ request = [tablet |-> <<>>, indexlet |-> <<>>, replicas |-> <<>>]
    /\ replySent = FALSE
    /\ clientLease = -1
    /\ currentClusterTime = 0
    /\ logHead = 1
    /\ headOfLog = -1
    /\ replicas = <<>>
    /\ tasks = [k \in 1..W |-> 0]
    /\ runningSet = {}
    /\ activeRequests = 0
    /\ notStarted = 1
    /\ grdIssued = <<>>
    /\ fetchFailed = {}
    /\ replayCount = <<>>
    /\ sideLog = {}
    /\ sideLogCommits = 0
    /\ log = {}
    /\ hashTable = {}
    /\ recoverThrew = "none"
    /\ exception = "none"
    /\ wasNormal = {}
    /\ successful = FALSE
    /\ finishedCalls = 0
    /\ finishedSuccess = <<>>
    /\ cancelRecovery = FALSE
    /\ locksRegrabbed = FALSE
    /\ orphansRemoved = FALSE

InitNewOwner ==
    /\ RecoverAtRest
    /\ tablets = {}
    /\ indexlets = {}
    /\ clusterTime = 0
    /\ MigrationAtRest
    /\ CoordinatorAtRest
    /\ ServiceAtRest

NextNewOwner ==
    \/ \E r \in RpcRanges : PrepForMigrationRpc("newOwner", r)
    \/ \E req \in ReceiveRequests : ReceiveMigrationDataRpc(req)
    \/ \E r \in RpcRanges : TakeTabletOwnershipRpc("newOwner", r)
    \/ \E r \in RpcRanges : DropTabletOwnershipRpc("newOwner", r)

SpecNewOwner == InitNewOwner /\ [][NextNewOwner]_vars

\* The tablet maps a master may hold when a tablet RPC arrives: tablets of
\* the RPC ranges that do not overlap, each in any state.
TabletStates == {"NORMAL", "RECOVERING", "LOCKED_FOR_MIGRATION"}

OwnedTabletMaps ==
    {map \in SUBSET {WithState(r, st) : r \in RpcRanges, st \in TabletStates} :
        \A t \in map : ~Overlaps(map \ {t}, t)}

\* A master that holds any such map serves the coordinator's tablet RPCs in
\* every order.
InitOwnership ==
    /\ RecoverAtRest
    /\ tablets \in OwnedTabletMaps
    /\ indexlets = {}
    /\ clusterTime = 0
    /\ MigrationAtRest
    /\ CoordinatorAtRest
    /\ ServiceAtRest

NextOwnership ==
    \/ \E r \in RpcRanges : TakeTabletOwnershipRpc("master", r)
    \/ \E r \in RpcRanges : PrepForMigrationRpc("master", r)
    \/ \E r \in RpcRanges : DropTabletOwnershipRpc("master", r)

SpecOwnership == InitOwnership /\ [][NextOwnership]_vars

\* A master that holds a tablet with one object and the tablet of a table
\* that backs an index, the head segment of its log holding one entry, and
\* serves a Recover
\* request, a MigrateTablet request and the tablet RPCs of the coordinator and
\* of other masters, in every order; the new owner of the migration serves
\* its RPCs as well.
TabletRequests ==
    {[tablet |-> p.tablet, indexlet |-> p.indexlet,
      replicas |-> ReplicaList(<<1>>)] :
        p \in {q \in Partitions : Len(q.indexlet) > 0}}

\* The range the tablet RPCs to this master name.
MasterRpcRanges == {Range(1, 0, 1)}

InitTablets ==
    /\ pc = "idle"
    /\ request \in TabletRequests
    /\ replySent = FALSE
    /\ tablets = {WithState(Range(1, 0, 1), "NORMAL"),
                  WithState(Range(2, 0, MaxKeyHash), "NORMAL")}
    /\ indexlets = {}
    /\ clusterTime = 0
    /\ clientLease = -1
    /\ currentClusterTime = 0
    /\ logHead = 1
    /\ headOfLog = -1
    /\ replicas = <<>>
    /\ tasks = [k \in 1..W |-> 0]
    /\ runningSet = {}
    /\ activeRequests = 0
    /\ notStarted = 1
    /\ grdIssued = <<>>
    /\ fetchFailed = {}
    /\ replayCount = <<>>
    /\ sideLog = {}
    /\ sideLogCommits = 0
    /\ log = {}
    /\ hashTable = {}
    /\ recoverThrew = "none"
    /\ exception = "none"
    /\ wasNormal = {}
    /\ successful = FALSE
    /\ finishedCalls = 0
    /\ finishedSuccess = <<>>
    /\ cancelRecovery = FALSE
    /\ locksRegrabbed = FALSE
    /\ orphansRemoved = FALSE
    /\ mpc = "idle"
    /\ reqHdr = [tableId |-> 1, firstKeyHash |-> 0, lastKeyHash |-> 1,
                 newOwnerMasterId |-> 2]
    /\ respStatus = "OK"
    /\ logEntries = <<Entry("OBJ", <<1, 0>>, 1, 1, 1),
                      Entry("TXDECISION", <<1, 0>>, 0, 1, 2)>>
    /\ headSegmentStart = Len(logEntries)
    /\ objectMap = [key \in Keys |-> IF key = <<1, 0>> THEN 1 ELSE 0]
    /\ logIt = 1
    /\ transferSeg = <<>>
    /\ newOwnerLogHead = -1
    /\ currentEpoch = 1
    /\ epoch = -1
    /\ rpcEpoch = 0
    /\ outstanding = {}
    /\ position = -1
    /\ destTablets = {}
    /\ destLogHead = 1
    /\ received = <<>>
    /\ destObjects = [key \in Keys |-> NoObject]
    /\ reassignCalls = <<>>
    /\ steps = <<>>
    /\ appended = {}
    /\ snapshotLive = <<>>
    /\ lastRpc = NoRpc
    /\ WritesAtRest
    /\ CoordinatorAtRest
    /\ ServiceAtRest

NextTablets ==
    \/ Next
    \/ MigrateTabletRpc
    \/ Phase1Scan
    \/ LockTablet
    \/ EpochBarrier
    \/ Phase2Scan
    \/ ReassignTabletOwnership
    \/ CoordinatorReassigns
    \/ DropTablet
    \/ \E r \in MasterRpcRanges : PrepForMigrationRpc("master", r)
    \/ \E req \in IndexletRequests : PrepForIndexletMigrationRpc(req)
    \/ \E r \in MasterRpcRanges : TakeTabletOwnershipRpc("master", r)
    \/ \E r \in MasterRpcRanges : DropTabletOwnershipRpc("master", r)

SpecTablets == InitTablets /\ [][NextTablets]_vars

\* ------------------------------------------------- linearizable writes
\* What parseRpcResult makes of a result that is not there or not valid: the
\* code that decides it is not part of MasterService.
UnknownResponses ==
    {[status |-> "RETRY", version |-> 0], [status |-> "INTERNAL_ERROR", version |-> 0]}

\* The statuses objectManager.writeObject returns: success, and a refusal by
\* the reject rules.
WriteStatuses == {"OK", "WRONG_VERSION"}

besidesWrites == <<recoveryVars, handlerVars, tablets, indexlets, migrateRest,
                   objectMap, destTablets, destLogHead, received, destObjects,
                   lastRpc, coordinatorVars, serviceVars>>

\* Variant: the request is executed without asking unackedRpcResults.
LinearizableWriteRpcNoCheck(id, timestamp) ==
    /\ writePc[id] = "idle"
    /\ clusterTime' = UpdateClusterTime(timestamp)
    /\ unackedRpcResults' = [unackedRpcResults EXCEPT ![id] = InProgress]
    /\ writePc' = [writePc EXCEPT ![id] = "writeObject"]
    /\ UNCHANGED <<respHdrs, objectWrites, indexInserts, completions,
                   objectVersion, lastReply>>
    /\ UNCHANGED besidesWrites

\* MasterService::write with rpcId > 0, up to the duplicate check:
\* updateClusterTime, then checkDuplicate.  A duplicate is answered from the
\* recorded result and the handler returns; a new request is registered and
\* goes on.
LinearizableWriteRpc(id, timestamp) ==
    /\ clusterTime' = UpdateClusterTime(timestamp)
    /\ IF unackedRpcResults[id] # NoResult
       THEN /\ \E response \in IF unackedRpcResults[id] = InProgress
                              THEN UnknownResponses
                              ELSE {unackedRpcResults[id]} :
                   lastReply' = [rpcId |-> id, response |-> response,
                                 duplicate |-> TRUE]
            /\ UNCHANGED <<unackedRpcResults, writePc>>
       ELSE /\ unackedRpcResults' = [unackedRpcResults EXCEPT ![id] = InProgress]
            /\ writePc' = [writePc EXCEPT ![id] = "writeObject"]
            /\ UNCHANGED lastReply
    /\ UNCHANGED <<respHdrs, objectWrites, indexInserts, completions, objectVersion>>
    /\ UNCHANGED besidesWrites

\* requestInsertIndexEntries(object), then objectManager.writeObject with the
\* RpcRecord, and syncChanges when the status is OK.
WriteObjectStep(id, status) ==
    /\ writePc[id] = "writeObject"
    /\ status = "OK" => objectVersion < MaxVersion
    /\ indexInserts' = [indexInserts EXCEPT ![id] = @ + 1]
    /\ IF status = "OK"
       THEN /\ objectVersion' = objectVersion + 1
            /\ objectWrites' = [objectWrites EXCEPT ![id] = @ + 1]
       ELSE UNCHANGED <<objectVersion, objectWrites>>
    /\ respHdrs' = [respHdrs EXCEPT ![id] =
                       [status |-> status, version |-> objectVersion']]
    /\ writePc' = [writePc EXCEPT ![id] = "recordCompletion"]
    /\ UNCHANGED <<unackedRpcResults, completions, lastReply>>
    /\ UNCHANGED clusterTime
    /\ UNCHANGED besidesWrites

\* unackedRpcResults.recordCompletion(leaseId, rpcId, rpcRecordPtr), then
\* rpc->sendReply(), after which respHdr is gone.  rpcRecordPtr is set by a writeObject that succeeded;
\* otherwise it holds what the uninitialized local holds.
RecordCompletion(id) ==
    /\ writePc[id] = "recordCompletion"
    /\ \E result \in IF respHdrs[id].status = "OK" THEN {respHdrs[id]}
                    ELSE UnknownResponses \cup {respHdrs[id]} :
           unackedRpcResults' = [unackedRpcResults EXCEPT ![id] = result]
    /\ completions' = [completions EXCEPT ![id] = @ + 1]
    /\ lastReply' = [rpcId |-> id, response |-> respHdrs[id], duplicate |-> FALSE]
    /\ writePc' = [writePc EXCEPT ![id] = "idle"]
    /\ respHdrs' = [respHdrs EXCEPT ![id] = NoReply.response]
    /\ UNCHANGED <<objectWrites, indexInserts, objectVersion>>
    /\ UNCHANGED clusterTime
    /\ UNCHANGED besidesWrites

\* MasterService::write with rpcId = 0: the object is written, nothing is
\* looked up or recorded in unackedRpcResults.
PlainWriteRpc(status) ==
    /\ status = "OK" => objectVersion < MaxVersion
    /\ objectVersion' = IF status = "OK" THEN objectVersion + 1 ELSE objectVersion
    /\ lastReply' = [rpcId |-> 0,
                     response |-> [status |-> status, version |-> objectVersion'],
                     duplicate |-> FALSE]
    /\ UNCHANGED <<unackedRpcResults, writePc, respHdrs, objectWrites,
                   indexInserts, completions>>
    /\ UNCHANGED clusterTime
    /\ UNCHANGED besidesWrites

\* reqHdr->lease.timestamp of the writes: not beyond the cluster time, and
\* beyond it.
LeaseTimestamps == {0, 1}

\* A master that serves writes, first requests and retries, in every order.
InitLinearizable == InitNewOwner

NextLinearizable ==
    \/ \E id \in RpcIds, timestamp \in LeaseTimestamps : LinearizableWriteRpc(id, timestamp)
    \/ \E id \in RpcIds, status \in WriteStatuses : WriteObjectStep(id, status)
    \/ \E id \in RpcIds : RecordCompletion(id)
    \/ \E status \in WriteStatuses : PlainWriteRpc(status)

SpecLinearizable == InitLinearizable /\ [][NextLinearizable]_vars

\* ------------------------------------------- coordinator: Recovery
\* What every step of the coordinator and of its recovery masters leaves alone.
besidesCoordinator == <<recoveryVars, handlerVars, tablets, indexlets, clusterTime,
                        migrateRest, objectMap, destTablets, destLogHead, received,
                        destObjects, lastRpc, writeVars, serviceVars>>

\* Every way the crashed master's segments may lie on the backups.
Assignments == [Backups -> SUBSET BackupSegmentIds]

\* RecoveryTest::setUp (segments 88 and 89 on backup1, 88 on backup2, none on
\* backup3), a second layout with two copies of each segment, and a crashed
\* master without segments.
DispatchAssignments ==
    { [b \in Backups |-> CASE b = 1 -> {FirstSegmentId, FirstSegmentId + 1}
                           [] b = 2 -> {FirstSegmentId}
                           [] OTHER -> {}],
      [b \in Backups |-> CASE b = 1 -> {FirstSegmentId + 1}
                           [] b = 2 -> {FirstSegmentId, FirstSegmentId + 1}
                           [] OTHER -> {FirstSegmentId}],
      [b \in Backups |-> {}] }

WillTablet(s, e, p) == [startKeyHash |-> s, endKeyHash |-> e, partition |-> p]

\* The wills of test_start and test_start_notEnoughMasters, a will of one
\* partition, and one whose first partition has two tablets.
Wills ==
    { <<WillTablet(0, 9, 0), WillTablet(10, 19, 1)>>,
      <<WillTablet(0, 9, 0), WillTablet(10, 19, 1), WillTablet(20, 29, 2)>>,
      <<WillTablet(0, 9, 0)>>,
      <<WillTablet(0, 9, 0), WillTablet(10, 19, 1), WillTablet(20, 29, 0)>> }

\* Variant: an entry goes in front of the entries with its segment id.
MultimapInsertFront(mm, e) ==
    LET n == Cardinality({i \in 1..Len(mm) : mm[i].segmentId < e.segmentId})
    IN SubSeq(mm, 1, n) \o <<e>> \o SubSeq(mm, n + 1, Len(mm))

\* multimap::insert: the entry goes behind the entries whose key is not
\* greater than its own.
MultimapInsert(mm, e) ==
    LET n == Cardinality({i \in 1..Len(mm) : mm[i].segmentId <= e.segmentId})
    IN SubSeq(mm, 1, n) \o <<e>> \o SubSeq(mm, n + 1, Len(mm))

\* The segment ids one backup reports, put into the map one by one.
RECURSIVE InsertSegments(_, _, _)
InsertSegments(mm, b, segs) ==
    IF segs = {} THEN mm
    ELSE LET sid == CHOOSE x \in segs : \A y \in segs : x <= y
         IN InsertSegments(MultimapInsert(mm, [segmentId |-> sid, backup |-> b]),
                           b, segs \ {sid})

\* The loop over the backup hosts, in the order of the host list.
RECURSIVE QueryBackups(_, _, _)
QueryBackups(mm, stored, b) ==
    IF b > NumBackups THEN mm
    ELSE QueryBackups(InsertSegments(mm, b, stored[b]), stored, b + 1)

\* Recovery::buildSegmentIdToBackups
BuildSegmentIdToBackups ==
    /\ cpc = "idle"
    /\ segmentIdToBackups' = QueryBackups(<<>>, segmentsOf, 1)
    /\ cpc' = "mapped"
    /\ UNCHANGED <<segmentsOf, will, backups, partitionId, testLog, boards>>
    /\ UNCHANGED besidesCoordinator

\* Recovery::createBackupList: one entry of the server list per entry of the
\* map, in the map's order.
CreateBackupList ==
    /\ cpc = "mapped"
    /\ backups' = [i \in 1..Len(segmentIdToBackups) |->
                      [service_type |-> "BACKUP",
                       segment_id |-> segmentIdToBackups[i].segmentId,
                       server_id |-> segmentIdToBackups[i].backup]]
    /\ cpc' = "listed"
    /\ UNCHANGED <<segmentsOf, will, segmentIdToBackups, partitionId, testLog, boards>>
    /\ UNCHANGED besidesCoordinator

\* The number of recovery partitions of the will.
NumPartitions(w) ==
    IF Len(w) = 0 THEN 0
    ELSE 1 + (CHOOSE p \in {w[i].partition : i \in 1..Len(w)} :
                 \A i \in 1..Len(w) : w[i].partition <= p)

\* The tablets of the will whose partition id is p.
TabletsOfPartition(w, p) ==
    {[startKeyHash |-> w[i].startKeyHash, endKeyHash |-> w[i].endKeyHash] :
        i \in {j \in 1..Len(w) : w[j].partition = p}}

\* The replica vector a recovery master parses from the Recover request.
ReplicaVector(list) ==
    [i \in 1..Len(list) |-> Replica(list[i].server_id, list[i].segment_id)]

LogStart(m, count, hosts) ==
    [event |-> "start", master |-> m, tablets |-> count, hosts |-> hosts, segmentId |-> 0]

LogEvent(event, m, sid) ==
    [event |-> event, master |-> m, tablets |-> 0, hosts |-> 0, segmentId |-> sid]

Busted == LogEvent("busted", 0, 0)

\* Variant: the partitions are handed out round-robin until none is left.
StartPartitionWrapAround ==
    /\ cpc \in {"listed", "starting"}
    /\ partitionId < NumPartitions(will)
    /\ LET m == (partitionId % NumMasters) + 1
           mine == TabletsOfPartition(will, partitionId)
       IN /\ boards[m].pc \in {"idle", "done"}
          /\ boards' = [boards EXCEPT ![m] =
                 [IdleBoard EXCEPT !.pc = "startRpcs", !.partition = partitionId,
                                   !.tablets = mine,
                                   !.replicas = ReplicaVector(backups),
                                   !.grdIssued = [i \in 1..Len(backups) |-> 0]]]
          /\ testLog' = Append(testLog, LogStart(m, Cardinality(mine), Len(backups)))
    /\ partitionId' = partitionId + 1
    /\ cpc' = "starting"
    /\ UNCHANGED <<segmentsOf, will, segmentIdToBackups, backups>>
    /\ UNCHANGED besidesCoordinator

\* Recovery::start, one turn of its loop over the master hosts: the next
\* partition goes to the next master, with the backup list.
StartPartition ==
    /\ cpc \in {"listed", "starting"}
    /\ partitionId < NumPartitions(will)
    /\ partitionId < NumMasters
    /\ LET m == partitionId + 1
           mine == TabletsOfPartition(will, partitionId)
       IN /\ boards' = [boards EXCEPT ![m] =
                 [IdleBoard EXCEPT !.pc = "startRpcs", !.partition = partitionId,
                                   !.tablets = mine,
                                   !.replicas = ReplicaVector(backups),
                                   !.grdIssued = [i \in 1..Len(backups) |-> 0]]]
          /\ testLog' = Append(testLog, LogStart(m, Cardinality(mine), Len(backups)))
    /\ partitionId' = partitionId + 1
    /\ cpc' = "starting"
    /\ UNCHANGED <<segmentsOf, will, segmentIdToBackups, backups>>
    /\ UNCHANGED besidesCoordinator

\* Recovery::start after its loop: the diagnostic when partitions are left.
FinishStart ==
    /\ cpc \in {"listed", "starting"}
    /\ ~(partitionId < NumPartitions(will) /\ partitionId < NumMasters)
    /\ testLog' = IF partitionId < NumPartitions(will)
                  THEN Append(testLog, Busted) ELSE testLog
    /\ cpc' = "started"
    /\ UNCHANGED <<segmentsOf, will, segmentIdToBackups, backups, partitionId, boards>>
    /\ UNCHANGED besidesCoordinator

\* The GetRecoveryData RPCs a step of master m issued, in the order of the
\* replica list.
RECURSIVE IssuedFrom(_, _, _, _)
IssuedFrom(m, before, after, i) ==
    IF i > Len(after.replicas) THEN <<>>
    ELSE (IF after.grdIssued[i] > before.grdIssued[i]
          THEN <<LogEvent("GRD", m, after.replicas[i].segmentId)>> ELSE <<>>)
         \o IssuedFrom(m, before, after, i + 1)

\* The fetches that failed so far, on all recovery masters.
RECURSIVE FetchFailures(_)
FetchFailures(m) ==
    IF m > NumMasters THEN 0
    ELSE Cardinality({i \in 1..Len(boards[m].log) :
                         boards[m].log[i].event = "GRD failed"})
         + FetchFailures(m + 1)

\* The initial round of recover on master m.
MasterStartRpcs(m) ==
    /\ boards[m].pc = "startRpcs"
    /\ LET sb == StartInitialTasks(boards[m], 1, boards[m].notStarted)
       IN boards' = [boards EXCEPT ![m] =
              [sb EXCEPT !.pc = "eventLoop",
                         !.log = @ \o IssuedFrom(m, boards[m], sb, 1)]]
    /\ UNCHANGED <<segmentsOf, will, segmentIdToBackups, backups, cpc, partitionId,
                   testLog>>
    /\ UNCHANGED besidesCoordinator

\* The event loop of recover on master m, for a ready task in slot k whose
\* segment was replayed (ok) or that ended in a catch block.
MasterTaskReady(m, k, ok) ==
    /\ boards[m].pc = "eventLoop"
    /\ boards[m].activeRequests > 0
    /\ boards[m].tasks[k] # 0
    /\ ~ok => FetchFailures(1) < MaxFetchFailures
    /\ LET sid == boards[m].replicas[boards[m].tasks[k]].segmentId
           done == CompleteTask(boards[m], k, ok)
           from == AdvanceNotStarted(done.replicas, done.notStarted)
           sb == [RestartSlot(done, k, from) EXCEPT !.notStarted = from]
       IN boards' = [boards EXCEPT ![m] =
              [sb EXCEPT !.log =
                  Append(@, LogEvent(IF ok THEN "GRD complete" ELSE "GRD failed",
                                     m, sid))
                  \o IssuedFrom(m, done, sb, 1)]]
    /\ UNCHANGED <<segmentsOf, will, segmentIdToBackups, backups, cpc, partitionId,
                   testLog>>
    /\ UNCHANGED besidesCoordinator

\* while (activeRequests) has ended on master m: the recovery of its
\* partition ends, well or by SegmentRecoveryFailedException.
MasterRecovered(m) ==
    /\ boards[m].pc = "eventLoop"
    /\ boards[m].activeRequests = 0
    /\ boards' = [boards EXCEPT ![m].pc = "done",
                                ![m].log = Append(@,
                     LogEvent(IF DetectSegmentRecoveryFailure(boards[m].replicas)
                              THEN "recovery failed" ELSE "recovered", m, 0))]
    /\ UNCHANGED <<segmentsOf, will, segmentIdToBackups, backups, cpc, partitionId,
                   testLog>>
    /\ UNCHANGED besidesCoordinator

\* The builder alone, for every layout of the segments.
\* A master has crashed and nothing was done about it yet.
MasterCrashed ==
    /\ segmentIdToBackups = <<>>
    /\ backups = <<>>
    /\ cpc = "idle"
    /\ partitionId = 0
    /\ testLog = <<>>
    /\ boards = [m \in Masters |-> IdleBoard]
    /\ RecoverAtRest
    /\ tablets = {}
    /\ indexlets = {}
    /\ clusterTime = 0
    /\ MigrationAtRest
    /\ ServiceAtRest

\* The builder alone, for every layout of the segments.
InitReplicaMap ==
    /\ segmentsOf \in Assignments
    /\ will = <<>>
    /\ MasterCrashed

NextReplicaMap ==
    \/ BuildSegmentIdToBackups
    \/ CreateBackupList

SpecReplicaMap == InitReplicaMap /\ [][NextReplicaMap]_vars

\* The whole recovery: the builder, Recovery::start and the recovery masters,
\* which run as the Recover requests reach them.
InitRecovery ==
    /\ segmentsOf \in DispatchAssignments
    /\ will \in Wills
    /\ MasterCrashed

NextRecovery ==
    \/ BuildSegmentIdToBackups
    \/ CreateBackupList
    \/ StartPartition
    \/ FinishStart
    \/ \E m \in Masters : MasterStartRpcs(m)
    \/ \E m \in Masters, k \in 1..W, ok \in BOOLEAN : MasterTaskReady(m, k, ok)
    \/ \E m \in Masters : MasterRecovered(m)

SpecRecovery == InitRecovery /\ [][NextRecovery]_vars

\* ------------------------------------------- the Phase 2 epoch barrier
\* What the steps of the barrier leave alone.
besidesBarrier == <<recoveryVars, handlerVars, tablets, indexlets, clusterTime,
                    migrateLocals, logEntries, headSegmentStart, objectMap,
                    lastRpc, writeVars, coordinatorVars, splitVars, gateVars,
                    txVars>>

\* An RPC other than the migrations, begun at epoch e.
OtherRpc(e) == [op |-> "write", key |-> <<1, 0>>, size |-> 1, epoch |-> e]

\* The epochs an RPC may begin at: the first, and one more for every
\* migration that has incremented the current epoch.
BarrierEpochs == 1..(1 + Cardinality(Migrators))

\* The migration RPCs in progress.
Migrating == {m \in Migrators : migrators[m].pc \notin {"none", "returned"}}

\* ServerRpcPool<>::getEarliestOutstandingEpoch with several migrations in
\* progress: the lowest epoch of an RPC in progress, theirs among them.
EarliestEpochOf(others, migs) ==
    LET epochs == {r.epoch : r \in others} \cup {migs[m].rpcEpoch : m \in Migrating}
    IN CHOOSE e \in epochs : \A x \in epochs : e <= x

\* The migration RPC arrives and is given the current epoch; Phase 1 begins.
MigratorArrives(m) ==
    /\ migrators[m].pc = "none"
    /\ migrators' = [migrators EXCEPT ![m] =
                        [pc |-> "phase1", rpcEpoch |-> currentEpoch, epoch |-> 0]]
    /\ UNCHANGED <<currentEpoch, outstanding>>
    /\ UNCHANGED besidesBarrier

\* uint64_t epoch = ServerRpcPool<>::incrementCurrentEpoch() - 1;
IncrementCurrentEpoch(m) ==
    /\ migrators[m].pc = "phase1"
    /\ currentEpoch' = currentEpoch + 1
    /\ migrators' = [migrators EXCEPT ![m].pc = "incremented",
                                      ![m].epoch = currentEpoch]
    /\ UNCHANGED outstanding
    /\ UNCHANGED besidesBarrier

\* Variant: the RPC keeps the epoch it began at.
RaiseOwnEpochNot(m) ==
    /\ migrators[m].pc = "incremented"
    /\ migrators' = [migrators EXCEPT ![m].pc = "epochWait"]
    /\ UNCHANGED <<currentEpoch, outstanding>>
    /\ UNCHANGED besidesBarrier

\* rpc->worker->rpc->epoch = epoch + 1;
RaiseOwnEpoch(m) ==
    /\ migrators[m].pc = "incremented"
    /\ migrators' = [migrators EXCEPT ![m].pc = "epochWait",
                                      ![m].rpcEpoch = migrators[m].epoch + 1]
    /\ UNCHANGED <<currentEpoch, outstanding>>
    /\ UNCHANGED besidesBarrier

\* while (true) { if (getEarliestOutstandingEpoch(context) > epoch) break; }
PassBarrier(m) ==
    /\ migrators[m].pc = "epochWait"
    /\ EarliestEpochOf(outstanding, migrators) > migrators[m].epoch
    /\ migrators' = [migrators EXCEPT ![m].pc = "phase2"]
    /\ UNCHANGED <<currentEpoch, outstanding>>
    /\ UNCHANGED besidesBarrier

\* The rest of the migration, and its return.
MigratorReturns(m) ==
    /\ migrators[m].pc = "phase2"
    /\ migrators' = [migrators EXCEPT ![m].pc = "returned"]
    /\ UNCHANGED <<currentEpoch, outstanding>>
    /\ UNCHANGED besidesBarrier

\* Another RPC arrives and is given the current epoch.
OtherRpcArrives ==
    /\ Cardinality(outstanding) < MaxOutstanding
    /\ OtherRpc(currentEpoch) \notin outstanding
    /\ outstanding' = outstanding \cup {OtherRpc(currentEpoch)}
    /\ UNCHANGED <<currentEpoch, migrators>>
    /\ UNCHANGED besidesBarrier

\* An RPC other than the migrations completes.
OtherRpcCompletes(r) ==
    /\ r \in outstanding
    /\ outstanding' = outstanding \ {r}
    /\ UNCHANGED <<currentEpoch, migrators>>
    /\ UNCHANGED besidesBarrier

\* What a migration does by itself once it has arrived.
MigratorStep(m) ==
    \/ IncrementCurrentEpoch(m)
    \/ RaiseOwnEpoch(m)
    \/ PassBarrier(m)
    \/ MigratorReturns(m)

\* A migrateTablet and a splitAndMigrateIndexlet on one master, with other
\* RPCs coming and going.
InitBarrier == InitNewOwner

NextBarrier ==
    \/ \E m \in Migrators : MigratorArrives(m)
    \/ \E m \in Migrators : MigratorStep(m)
    \/ OtherRpcArrives
    \/ \E e \in BarrierEpochs : OtherRpcCompletes(OtherRpc(e))

\* Every migration goes on while it can, and every other RPC completes.
SpecBarrier ==
    /\ InitBarrier
    /\ [][NextBarrier]_vars
    /\ \A m \in Migrators : WF_vars(MigratorStep(m))
    /\ \A e \in BarrierEpochs : WF_vars(OtherRpcCompletes(OtherRpc(e)))

\* ------------------------------------------- indexlet split and migration
\* What the indexlet migration and the index writes leave alone.
besidesSplit == <<recoveryVars, handlerVars, tablets, indexlets, clusterTime,
                  migrateLocals, logEntries, headSegmentStart, objectMap,
                  lastRpc, writeVars, coordinatorVars, migrators, gateVars,
                  txVars>>

\* Index keys, in the order of the index; the master's indexlet of index 7 of
\* table 1 holds all of them and is backed by table 2.
IndexKeys == 0..2

IndexedTable == 1

OwnedIndexId == 7

BackingTable == 2

OwnedIndexlets ==
    {[tableId |-> IndexedTable, indexId |-> OwnedIndexId, firstKey |-> 0,
      firstNotOwnedKey |-> 3]}

\* Entries of the log: an index node is an object of the backing table, and
\* indexKey is what IndexletManager::isGreaterOrEqual compares with the split
\* key.
IndexEntry(type, tableId, indexKey, size, ref) ==
    [type |-> type, tableId |-> tableId, indexKey |-> indexKey, size |-> size,
     ref |-> ref]

\* Entries the log may hold when the request arrives: nodes of the backing
\* table on both sides of the split keys, a tombstone, an object of another
\* table, an entry of another type, and a node larger than a segment.
IndexEntryTemplates ==
    {IndexEntry("OBJ", BackingTable, k, 1, 0) : k \in IndexKeys}
    \cup {IndexEntry("OBJTOMB", BackingTable, 1, 1, 0),
          IndexEntry("OBJ", IndexedTable, 2, 1, 0),
          IndexEntry("TXDECISION", BackingTable, 2, 1, 0),
          IndexEntry("OBJ", BackingTable, 2, SegmentCapacity + 1, 0)}

InitialIndexLogs ==
    {[i \in 1..(MaxLogEntries - 1) |-> [t[i] EXCEPT !.ref = i]] :
        t \in [1..(MaxLogEntries - 1) -> IndexEntryTemplates]}

\* SplitAndMigrateIndexlet requests: the index the master holds or another,
\* the backing table it holds or another, a split key inside the indexlet,
\* and a new owner that is another master or this one.
SplitRequests ==
    {[tableId |-> IndexedTable, indexId |-> i, currentBackingTableId |-> b,
      newBackingTableId |-> 3, splitKey |-> k, newOwnerId |-> o] :
        i \in {OwnedIndexId, 8}, b \in {BackingTable, 4}, k \in {1, 2},
        o \in {serverId, 2}}

\* IndexletManager::hasIndexlet: an indexlet of the index holds the key.
HasIndexlet(map, tableId, indexId, key) ==
    \E x \in map : /\ x.tableId = tableId
                   /\ x.indexId = indexId
                   /\ x.firstKey <= key
                   /\ key < x.firstNotOwnedKey

\* IndexletManager::truncateIndexlet: the indexlet that holds the key ends
\* before it from now on.
TruncateIndexlet(map, tableId, indexId, key) ==
    {IF /\ x.tableId = tableId
        /\ x.indexId = indexId
        /\ x.firstKey <= key
        /\ key < x.firstNotOwnedKey
     THEN [x EXCEPT !.firstNotOwnedKey = key]
     ELSE x : x \in map}

\* IndexletManager::isGreaterOrEqual.
IsGreaterOrEqual(e, splitKey) == e.indexKey >= splitKey

\* ObjectManager::keyPointsAtReference: the hash table points at the newest
\* entry of a key.
KeyPointsAtReference(entries, i) ==
    ~\E j \in (i + 1)..Len(entries) :
          /\ entries[j].type \in {"OBJ", "OBJTOMB"}
          /\ entries[j].tableId = entries[i].tableId
          /\ entries[j].indexKey = entries[i].indexKey

\* Object::changeTableId, ObjectTombstone::changeTableId.
ChangeTableId(e, tableId) == [e EXCEPT !.tableId = tableId]

\* Variant: entries below the split key are migrated as well.
SplitSelectedAnyKey(i) ==
    LET e == indexLog[i]
    IN /\ e.type \in {"OBJ", "OBJTOMB"}
       /\ e.tableId = splitReq.currentBackingTableId
       /\ e.type = "OBJ" => KeyPointsAtReference(indexLog, i)

\* migrateSingleIndexObject: the tests an entry passes before it is appended.
SplitSelected(i) ==
    LET e == indexLog[i]
    IN /\ e.type \in {"OBJ", "OBJTOMB"}
       /\ e.tableId = splitReq.currentBackingTableId
       /\ IsGreaterOrEqual(e, splitReq.splitKey)
       /\ e.type = "OBJ" => KeyPointsAtReference(indexLog, i)

\* The part of the handler's state that migrateSingleIndexObject works on.
SplitState ==
    [transferSeg |-> split.transferSeg, status |-> split.status,
     steps |-> split.steps, sent |-> splitSent]

\* transferSeg->close(); MasterClient::receiveMigrationData(context,
\* newOwnerMasterId, transferSeg.get(), newBackingTableId, 0); the new owner
\* takes the segment.
SplitSend(m) ==
    [m EXCEPT !.sent = Append(@, [segment |-> m.transferSeg,
                                  tableId |-> splitReq.newBackingTableId,
                                  firstKeyHash |-> 0]),
              !.transferSeg = <<>>,
              !.steps = Append(@, "receiveMigrationData")]

\* migrateSingleIndexObject for the entry under the iterator.
MigrateSingleIndexObject(m, i) ==
    LET e == ChangeTableId(indexLog[i], splitReq.newBackingTableId)
    IN IF ~SplitSelected(i) THEN m
       ELSE IF Fits(m.transferSeg, e)
            THEN [m EXCEPT !.transferSeg = Append(@, e)]
            ELSE LET sent == SplitSend(m)
                 IN IF Fits(<<>>, e)
                    THEN [sent EXCEPT !.transferSeg = <<e>>]
                    ELSE [sent EXCEPT !.status = "INTERNAL_ERROR"]

\* The tests splitAndMigrateIndexlet makes before it scans the log.
SplitRequestStatus(req) ==
    IF ~HasIndexlet(indexletMap, req.tableId, req.indexId, req.splitKey)
    THEN "UNKNOWN_INDEXLET"
    ELSE IF Containing(tablets, req.currentBackingTableId, 0) = {}
         THEN "UNKNOWN_TABLET"
         ELSE IF req.newOwnerId = serverId THEN "REQUEST_FORMAT_ERROR"
              ELSE "OK"

\* The request arrives and is given the current epoch; it is answered at once
\* when one of the tests fails.
SplitAndMigrateIndexletRpc(req) ==
    /\ split.pc = "idle"
    /\ splitReq' = req
    /\ split' = [split EXCEPT
                    !.pc = IF SplitRequestStatus(req) = "OK" THEN "phase1"
                           ELSE "returned",
                    !.status = SplitRequestStatus(req),
                    !.rpcEpoch = currentEpoch]
    /\ UNCHANGED <<indexLog, indexletMap, splitSent, currentEpoch, outstanding>>
    /\ UNCHANGED besidesSplit

\* One step of a scan: migrateSingleIndexObject, then it.next() or the return
\* on an error.
SplitScanStep ==
    LET m == MigrateSingleIndexObject(SplitState, split.it)
    IN /\ split' = [split EXCEPT
                       !.transferSeg = m.transferSeg,
                       !.status = m.status,
                       !.steps = m.steps,
                       !.it = IF m.status = "OK" THEN @ + 1 ELSE @,
                       !.pc = IF m.status = "OK" THEN @ ELSE "returned"]
       /\ splitSent' = m.sent
       /\ UNCHANGED <<splitReq, indexLog, indexletMap, currentEpoch, outstanding>>
       /\ UNCHANGED besidesSplit

\* for (; !it.isDone(); it.next())
SplitPhase1Scan ==
    /\ split.pc = "phase1"
    /\ split.it <= Len(indexLog)
    /\ SplitScanStep

\* The scan is done and the iterator is on the head: Phase 2 begins with
\* indexletManager.truncateIndexlet(tableId, indexId, splitKey).
SplitTruncate ==
    /\ split.pc = "phase1"
    /\ ~(split.it <= Len(indexLog))
    /\ indexletMap' = TruncateIndexlet(indexletMap, splitReq.tableId,
                                       splitReq.indexId, splitReq.splitKey)
    /\ split' = [split EXCEPT !.pc = "truncated",
                              !.steps = Append(@, "truncateIndexlet")]
    /\ UNCHANGED <<splitReq, indexLog, splitSent, currentEpoch, outstanding>>
    /\ UNCHANGED besidesSplit

\* The scan is done and the iterator is not on the head, which has moved on
\* to a new segment: there is no Phase 2.
SplitWithoutPhase2 ==
    /\ split.pc = "phase1"
    /\ ~(split.it <= Len(indexLog))
    /\ split' = [split EXCEPT !.pc = "last"]
    /\ UNCHANGED <<splitReq, indexLog, indexletMap, splitSent, currentEpoch,
                   outstanding>>
    /\ UNCHANGED besidesSplit

\* epoch = incrementCurrentEpoch() - 1; rpc->worker->rpc->epoch = epoch + 1.
SplitIncrementEpoch ==
    /\ split.pc = "truncated"
    /\ currentEpoch' = currentEpoch + 1
    /\ split' = [split EXCEPT !.pc = "epochWait",
                              !.epoch = currentEpoch,
                              !.rpcEpoch = currentEpoch + 1,
                              !.steps = Append(@, "incrementCurrentEpoch")]
    /\ UNCHANGED <<splitReq, indexLog, indexletMap, splitSent, outstanding>>
    /\ UNCHANGED besidesSplit

\* ServerRpcPool<>::getEarliestOutstandingEpoch: the lowest epoch of an RPC in
\* progress, the splitAndMigrateIndexlet RPC among them.
SplitEarliestEpoch ==
    LET epochs == {r.epoch : r \in outstanding} \cup {split.rpcEpoch}
    IN CHOOSE e \in epochs : \A x \in epochs : e <= x

\* The wait loop ends; position = getLog()->getHead(); it.refresh().
SplitEpochBarrier ==
    /\ split.pc = "epochWait"
    /\ SplitEarliestEpoch > split.epoch
    /\ split' = [split EXCEPT !.pc = "phase2",
                              !.position = Len(indexLog) + 1,
                              !.steps = @ \o <<"epochWait", "getHead">>]
    /\ UNCHANGED <<splitReq, indexLog, indexletMap, splitSent, currentEpoch,
                   outstanding>>
    /\ UNCHANGED besidesSplit

\* for (; it.getPosition() < position; it.next())
SplitPhase2Scan ==
    /\ split.pc = "phase2"
    /\ split.it < split.position
    /\ SplitScanStep

\* if (transferSeg) { close; receiveMigrationData; destroy }, and the return.
SplitLastSegment ==
    /\ \/ split.pc = "phase2" /\ ~(split.it < split.position)
       \/ split.pc = "last"
    /\ LET m == IF split.transferSeg # <<>> THEN SplitSend(SplitState)
                ELSE SplitState
       IN /\ split' = [split EXCEPT !.pc = "returned",
                                    !.transferSeg = m.transferSeg,
                                    !.steps = m.steps]
          /\ splitSent' = m.sent
    /\ UNCHANGED <<splitReq, indexLog, indexletMap, currentEpoch, outstanding>>
    /\ UNCHANGED besidesSplit

\* An insert into the index arrives: it is admitted when the master holds the
\* indexlet of its key, and is given the current epoch.
IndexWrite(k, e) ==
    [op |-> "write", key |-> <<BackingTable, k>>, size |-> 1, epoch |-> e]

IndexWriteArrives(k) ==
    /\ Cardinality(outstanding) < MaxOutstanding
    /\ Len(indexLog) + Cardinality(outstanding) < MaxLogEntries
    /\ HasIndexlet(indexletMap, IndexedTable, OwnedIndexId, k)
    /\ IndexWrite(k, currentEpoch) \notin outstanding
    /\ outstanding' = outstanding \cup {IndexWrite(k, currentEpoch)}
    /\ UNCHANGED <<splitVars, currentEpoch>>
    /\ UNCHANGED besidesSplit

\* The insert writes its node at the head of the log and completes.
IndexWriteCompletes(r) ==
    /\ r \in outstanding
    /\ indexLog' = Append(indexLog, IndexEntry("OBJ", r.key[1], r.key[2], r.size,
                                               Len(indexLog) + 1))
    /\ outstanding' = outstanding \ {r}
    /\ UNCHANGED <<split, splitReq, indexletMap, splitSent, currentEpoch>>
    /\ UNCHANGED besidesSplit

\* A master that holds the indexlet and its backing table, with entries in
\* its log, serves one SplitAndMigrateIndexlet request while inserts into
\* the index arrive and complete.
InitSplit ==
    /\ RecoverAtRest
    /\ tablets = {WithState(Range(BackingTable, 0, MaxKeyHash), "NORMAL")}
    /\ indexlets = {}
    /\ clusterTime = 0
    /\ MigrationAtRest
    /\ CoordinatorAtRest
    /\ MigratorsAtRest
    /\ GateAtRest
    /\ TxAtRest
    /\ split = NoSplit
    /\ splitReq = NoSplitRequest
    /\ indexLog \in InitialIndexLogs
    /\ indexletMap = OwnedIndexlets
    /\ splitSent = <<>>

NextSplit ==
    \/ \E req \in SplitRequests : SplitAndMigrateIndexletRpc(req)
    \/ SplitPhase1Scan
    \/ SplitTruncate
    \/ SplitWithoutPhase2
    \/ SplitIncrementEpoch
    \/ SplitEpochBarrier
    \/ SplitPhase2Scan
    \/ SplitLastSegment
    \/ \E k \in IndexKeys : IndexWriteArrives(k)
    \/ \E k \in IndexKeys, e \in BarrierEpochs : IndexWriteCompletes(IndexWrite(k, e))

SpecSplit == InitSplit /\ [][NextSplit]_vars

\* ------------------------------------------------------- request gating
\* Everything but the state of the service added for the single handlers.
besidesService == <<recoveryVars, handlerVars, tablets, indexlets, clusterTime,
                    migrateLocals, logEntries, headSegmentStart, objectMap,
                    currentEpoch, outstanding, lastRpc, writeVars,
                    coordinatorVars>>

\* What dispatch, initOnceEnlisted and the Disablers leave alone.
besidesGate == <<besidesService, migrators, splitVars, txVars>>

\* The opcodes of the requests: two that dispatch has a case for and one it
\* has none for.
Opcodes == {"READ", "WRITE", "ILLEGAL_RPC_TYPE"}

\* What a Disabler may be constructed on.
Services == {"master", "NULL"}

\* MasterService::dispatch: what becomes of the request.
Dispatch(opcode) ==
    IF ~initCalled THEN "RetryException"
    ELSE IF disableCount > 0 THEN "STATUS_RETRY"
    ELSE IF opcode = "ILLEGAL_RPC_TYPE" THEN "STATUS_UNIMPLEMENTED_REQUEST"
    ELSE "handler"

DispatchRpc(opcode) ==
    /\ lastDispatch' = [opcode |-> opcode, outcome |-> Dispatch(opcode)]
    /\ UNCHANGED <<initCalled, disableCount, disablers>>
    /\ UNCHANGED besidesGate

\* MasterService::initOnceEnlisted, called once.
InitOnceEnlisted ==
    /\ ~initCalled
    /\ initCalled' = TRUE
    /\ UNCHANGED <<disableCount, disablers, lastDispatch>>
    /\ UNCHANGED besidesGate

\* Disabler::Disabler(service): disableCount is atomic, so the increment is
\* one step.
DisablerConstruct(d, service) ==
    /\ disablers[d].pc = "none"
    /\ disablers' = [disablers EXCEPT ![d] = [pc |-> "alive", service |-> service]]
    /\ disableCount' = IF service # "NULL" THEN disableCount + 1 ELSE disableCount
    /\ UNCHANGED <<initCalled, lastDispatch>>
    /\ UNCHANGED besidesGate

\* Variant: reenable() leaves the service pointer as it was.
ReenableKeepService(count, disabler) ==
    IF disabler.service # "NULL"
    THEN [count |-> count - 1, disabler |-> disabler]
    ELSE [count |-> count, disabler |-> disabler]

\* Disabler::reenable(): the count and the object afterwards.
Reenable(count, disabler) ==
    IF disabler.service # "NULL"
    THEN [count |-> count - 1, disabler |-> [disabler EXCEPT !.service = "NULL"]]
    ELSE [count |-> count, disabler |-> disabler]

\* reenable() called on a Disabler by the thread that owns it.
DisablerReenable(d) ==
    /\ disablers[d].pc = "alive"
    /\ LET r == Reenable(disableCount, disablers[d])
       IN /\ disableCount' = r.count
          /\ disablers' = [disablers EXCEPT ![d] = r.disabler]
    /\ UNCHANGED <<initCalled, lastDispatch>>
    /\ UNCHANGED besidesGate

\* Disabler::~Disabler(): reenable(), and the object is gone.
DisablerDestroy(d) ==
    /\ disablers[d].pc = "alive"
    /\ LET r == Reenable(disableCount, disablers[d])
       IN /\ disableCount' = r.count
          /\ disablers' = [disablers EXCEPT ![d] =
                              [r.disabler EXCEPT !.pc = "destroyed"]]
    /\ UNCHANGED <<initCalled, lastDispatch>>
    /\ UNCHANGED besidesGate

\* A master as constructed: requests arrive before and after
\* initOnceEnlisted, and Disablers are constructed, re-enabled and destroyed
\* by several threads in every order.
InitGate ==
    /\ RecoverAtRest
    /\ tablets = {}
    /\ indexlets = {}
    /\ clusterTime = 0
    /\ MigrationAtRest
    /\ CoordinatorAtRest
    /\ MigratorsAtRest
    /\ SplitAtRest
    /\ TxAtRest
    /\ initCalled = FALSE
    /\ disableCount = 0
    /\ disablers = [d \in DisablerIds |-> NoDisabler]
    /\ lastDispatch = NoDispatch

NextGate ==
    \/ \E opcode \in Opcodes : DispatchRpc(opcode)
    \/ InitOnceEnlisted
    \/ \E d \in DisablerIds, service \in Services : DisablerConstruct(d, service)
    \/ \E d \in DisablerIds : DisablerReenable(d)
    \/ \E d \in DisablerIds : DisablerDestroy(d)

SpecGate == InitGate /\ [][NextGate]_vars

\* --------------------------------------------------------------- txDecision
\* What txDecision leaves alone.
besidesTx == <<besidesService, migrators, splitVars, gateVars>>

\* The participants a request may list: [tableId, keyHash, rpcId], in the
\* tablet [0, 1] of table 1 or in the tablet [2, 3].
TxParticipants ==
    {[tableId |-> 1, keyHash |-> 0, rpcId |-> 1],
     [tableId |-> 1, keyHash |-> 0, rpcId |-> 2],
     [tableId |-> 1, keyHash |-> 2, rpcId |-> 2]}

RECURSIVE ParticipantLists(_)
ParticipantLists(n) ==
    IF n = 0 THEN {<<>>}
    ELSE ParticipantLists(n - 1)
         \cup {Append(l, x) : l \in {y \in ParticipantLists(n - 1) : Len(y) = n - 1},
                              x \in TxParticipants}

\* TxDecision requests: COMMIT, ABORT, or a decision that is neither.
TxRequests ==
    {[decision |-> d, participants |-> l] :
        d \in {"COMMIT", "ABORT", "INVALID"}, l \in ParticipantLists(MaxParticipants)}

\* The tablet maps of the master when the requests arrive.
TxTabletMaps ==
    { {},
      {WithState(Range(1, 0, 1), "NORMAL")},
      {WithState(Range(1, 0, 1), "NORMAL"), WithState(Range(1, 2, 3), "NORMAL")},
      {WithState(Range(1, 0, 1), "NORMAL"), WithState(Range(1, 2, 3), "RECOVERING")} }

\* The call that ends a prepared op: for COMMIT by the type of the op, for
\* ABORT commitRead whatever the type.
CommitCall(decision, type) ==
    IF decision = "ABORT" THEN "commitRead"
    ELSE IF type = "READ" THEN "commitRead"
    ELSE IF type = "REMOVE" THEN "commitRemove"
    ELSE "commitWrite"

\* The loop over the participants, from the i-th on: getTablet and the state
\* test, peekOp, the commit call, popOp.
RECURSIVE TxProcess(_, _, _, _)
TxProcess(req, i, prepared, commits) ==
    IF i > Len(req.participants)
    THEN [status |-> "OK", prepared |-> prepared, commits |-> commits]
    ELSE LET p == req.participants[i]
             held == Containing(tablets, p.tableId, p.keyHash)
         IN IF held = {} \/ \E t \in held : t.state # "NORMAL"
            THEN [status |-> "UNKNOWN_TABLET", prepared |-> prepared,
                  commits |-> commits]
            ELSE IF prepared[p.rpcId] = "none"
                 THEN TxProcess(req, i + 1, prepared, commits)
                 ELSE TxProcess(req, i + 1,
                          [prepared EXCEPT ![p.rpcId] = "none"],
                          commits \cup {[rpcId |-> p.rpcId,
                                         call |-> CommitCall(req.decision,
                                                             prepared[p.rpcId])]})

\* MasterService::txDecision: the sendReply calls with the status of respHdr
\* at each, the prepared ops and the commits afterwards, and whether
\* syncChanges ran.  The branch for a decision that is neither COMMIT nor
\* ABORT sets REQUEST_FORMAT_ERROR and replies, and does not return.
TxDecision(req) ==
    IF req.decision \in {"COMMIT", "ABORT"}
    THEN LET r == TxProcess(req, 1, preparedWrites, txCommits)
         IN [replies |-> <<r.status>>, prepared |-> r.prepared,
             commits |-> r.commits, synced |-> r.status = "OK"]
    ELSE [replies |-> <<"REQUEST_FORMAT_ERROR", "OK">>,
          prepared |-> preparedWrites, commits |-> txCommits, synced |-> TRUE]

TxDecisionRpc(req) ==
    /\ LET r == TxDecision(req)
       IN /\ txReplies' = r.replies
          /\ preparedWrites' = r.prepared
          /\ txCommits' = r.commits
          /\ txSynced' = r.synced
    /\ txReq' = req
    /\ UNCHANGED besidesTx

\* A master with prepared ops of one lease serves TxDecision requests, one
\* after the other.
InitTx ==
    /\ RecoverAtRest
    /\ tablets \in TxTabletMaps
    /\ indexlets = {}
    /\ clusterTime = 0
    /\ MigrationAtRest
    /\ CoordinatorAtRest
    /\ MigratorsAtRest
    /\ SplitAtRest
    /\ GateAtRest
    /\ txReq = NoTxRequest
    /\ txReplies = <<>>
    /\ preparedWrites \in [TxRpcIds -> {"none", "READ", "REMOVE", "WRITE"}]
    /\ txCommits = {}
    /\ txSynced = FALSE

NextTx == \E req \in TxRequests : TxDecisionRpc(req)

SpecTx == InitTx /\ [][NextTx]_vars

\* ------------------------------------------------------------------ claims
\* The segment ids of the replica list and the replicas of one of them.
SegmentIds == {replicas[i].segmentId : i \in 1..Len(replicas)}
ReplicasOf(segmentId) == {i \in 1..Len(replicas) : replicas[i].segmentId = segmentId}

\* The helper has returned or thrown into the handler's catch.
HelperEnded ==
    \/ pc \in {"report", "waitCoordinator", "done"}
    \/ pc = "threw" /\ exception = "FatalError"

\* recoveryMasterFinished has been sent.
Reported == pc \in {"waitCoordinator", "done"} \/ (pc = "threw" /\ exception = "FatalError")

\* C1: when the helper has ended and every segment id has a replica whose
\* fetch and replay did not fail, the helper raised nothing, successful is
\* true, and the recoveryMasterFinished that was sent carried success = true.
C1_RecoverySucceeds ==
    (HelperEnded /\ \A sid \in SegmentIds : \E i \in ReplicasOf(sid) : i \notin fetchFailed)
        => /\ recoverThrew = "none"
           /\ successful
           /\ Reported => finishedSuccess = <<TRUE>>

\* A recovery that succeeded although a fetch failed on the way.
C1_Witness ==
    /\ pc = "done"
    /\ fetchFailed # {}
    /\ finishedSuccess = <<TRUE>>

\* C2: when the helper has ended and every replica of some segment id failed,
\* the helper raised SegmentRecoveryFailedException and the
\* recoveryMasterFinished that was sent carried success = false.
C2_RecoveryFails ==
    (HelperEnded /\ \E sid \in SegmentIds : ReplicasOf(sid) \subseteq fetchFailed)
        => /\ recoverThrew = "SegmentRecoveryFailedException"
           /\ ~successful
           /\ Reported => finishedSuccess = <<FALSE>>

\* Both replicas of a segment failed and the failure was reported.
C2_Witness ==
    /\ pc = "done"
    /\ finishedSuccess = <<FALSE>>
    /\ \E sid \in SegmentIds :
           Cardinality(ReplicasOf(sid)) >= 2 /\ ReplicasOf(sid) \subseteq fetchFailed

BecomesNormal(r) ==
    StateOf(tablets, r) = "RECOVERING" /\ StateOf(tablets', r) = "NORMAL"

\* C4: a tablet of the partition changes from RECOVERING to NORMAL only when
\* the partition recovery succeeded and its side log was committed, whatever
\* the coordinator replies.
C4_NormalOnlyAfterSuccess ==
    [][\A r \in PartitionTablets :
          BecomesNormal(r) => (successful /\ sideLogCommits = 1)]_vars

\* C5: once the coordinator has answered cancel = true, the handler is done,
\* no tablet and no indexlet of the partition is left, the orphaned objects
\* are removed, and no tablet of the partition was NORMAL at any moment since
\* the request began.
C5_CancelDeletes ==
    cancelRecovery =>
        /\ pc = "done"
        /\ \A r \in PartitionTablets : StateOf(tablets, r) = "ABSENT"
        /\ \A i \in 1..Len(request.indexlet) :
               \A x \in indexlets : x.id # request.indexlet[i]
        /\ orphansRemoved
        /\ hashTable = {}
        /\ wasNormal = {}

\* A cancel that arrived after a committed recovery of two tablets and an
\* indexlet.
C5_Witness ==
    /\ cancelRecovery
    /\ sideLogCommits = 1
    /\ Len(request.tablet) = 2
    /\ Len(request.indexlet) = 1
    /\ replayCount # <<>>

\* C6: the head of the log is recorded only after clusterTime reached the
\* coordinator's timestamp, recoveryMasterFinished is sent only after the head
\* was recorded, and a tablet of the partition becomes NORMAL only after
\* recoveryMasterFinished was sent and answered cancel = false, with
\* clusterTime at or above the coordinator's timestamp.
C6_HandlerOrder ==
    /\ [](headOfLog # -1 => (clientLease # -1 /\ clusterTime >= clientLease))
    /\ [](finishedCalls > 0 => headOfLog # -1)
    /\ [][\A r \in PartitionTablets :
             BecomesNormal(r) =>
                 /\ finishedCalls = 1
                 /\ ~cancelRecovery'
                 /\ headOfLog # -1
                 /\ clientLease # -1
                 /\ clusterTime >= clientLease]_vars

\* The tablets serve after the clock was raised to a non-zero timestamp.
C6_Witness ==
    /\ pc = "done"
    /\ ~cancelRecovery
    /\ clientLease > 0
    /\ \E r \in PartitionTablets : StateOf(tablets, r) = "NORMAL"

C8_AckThenOneReport ==
    /\ ~replySent =>
          /\ \A t \in tablets : t.state # "RECOVERING"
          /\ \A i \in DOMAIN grdIssued : grdIssued[i] = 0
          /\ runningSet = {}
    /\ finishedCalls = Len(finishedSuccess)
    /\ finishedCalls = IF Reported THEN 1 ELSE 0
    /\ Reported => (finishedSuccess[1] <=> recoverThrew = "none")
    /\ (pc = "waitCoordinator" /\ finishedSuccess[1]) =>
          \A i \in 1..Len(request.indexlet) :
              [id |-> request.indexlet[i], state |-> "RECOVERING"] \in indexlets

\* A request with an indexlet that ran to its end and reported success.
C8_Witness ==
    /\ pc = "done"
    /\ finishedSuccess = <<TRUE>>
    /\ Len(request.indexlet) = 1
    /\ Len(replicas) >= 1

WaitingReplicas == {i \in 1..Len(replicas) : replicas[i].state = "WAITING"}
OccupiedSlots == {k \in 1..W : tasks[k] # 0}

\* C9: activeRequests never exceeds W, and it equals the number of occupied
\* task slots and the number of replicas in state WAITING; the occupied slots
\* hold exactly the WAITING replicas.
C9_BoundedConcurrency ==
    /\ activeRequests <= W
    /\ activeRequests = Cardinality(OccupiedSlots)
    /\ activeRequests = Cardinality(WaitingReplicas)
    /\ {tasks[k] : k \in OccupiedSlots} = WaitingReplicas

\* All four slots are busy while a replica of a fifth segment waits its turn.
C9_Witness ==
    /\ activeRequests = W
    /\ \E i \in 1..Len(replicas) :
           replicas[i].state = "NOT_STARTED" /\ replicas[i].segmentId \notin runningSet

\* C10: runningSet is the set of segment ids of the WAITING replicas, and each
\* of them has exactly one WAITING replica.
C10_OneFetchPerSegment ==
    /\ runningSet = {replicas[i].segmentId : i \in WaitingReplicas}
    /\ \A sid \in runningSet :
           Cardinality(ReplicasOf(sid) \cap WaitingReplicas) = 1

\* After a failed fetch the next replica of the segment is in flight and a
\* third one is held back.
C10_Witness ==
    \E sid \in runningSet :
        /\ ReplicasOf(sid) \cap fetchFailed # {}
        /\ \E i \in ReplicasOf(sid) : replicas[i].state = "NOT_STARTED"

\* C11: a segment id is replayed at most once; once it has been replayed every
\* replica with that segment id is in state OK; and from then on no
\* GetRecoveryData is issued for any replica of it.
C11_ReplayedOnce ==
    /\ [](\A sid \in SegmentIds :
             /\ replayCount[sid] <= 1
             /\ replayCount[sid] = 1 =>
                    \A i \in ReplicasOf(sid) : replicas[i].state = "OK")
    /\ [][\A i \in 1..Len(replicas) :
             replayCount[replicas[i].segmentId] >= 1 => grdIssued'[i] = grdIssued[i]]_vars

\* A segment was replayed from its second replica while a third was never
\* fetched, and the helper went on with other segments.
C11_Witness ==
    /\ pc = "eventLoop"
    /\ activeRequests > 0
    /\ \E sid \in SegmentIds :
           /\ replayCount[sid] = 1
           /\ ReplicasOf(sid) \cap fetchFailed # {}
           /\ \E i \in ReplicasOf(sid) : grdIssued[i] = 0

\* The replicas that go from NOT_STARTED to WAITING in this step.
NewlyWaiting ==
    {j \in 1..Len(replicas) :
        replicas[j].state = "NOT_STARTED" /\ replicas'[j].state = "WAITING"}

\* C12: in a step in which a task fails, the task's replica becomes FAILED and
\* its segment id leaves runningSet; every other replica keeps its state,
\* except the one replica the freed slot is restarted with.
C12_FailureFrame ==
    [][fetchFailed' # fetchFailed =>
          \E i \in fetchFailed' \ fetchFailed :
              /\ fetchFailed' = fetchFailed \cup {i}
              /\ replicas[i].state = "WAITING"
              /\ replicas'[i].state = "FAILED"
              /\ \A j \in (1..Len(replicas)) \ {i} :
                     replicas'[j] = replicas[j] \/ j \in NewlyWaiting
              /\ Cardinality(NewlyWaiting) <= 1
              /\ runningSet' = (runningSet \ {replicas[i].segmentId})
                                  \cup {replicas[j].segmentId : j \in NewlyWaiting}]_vars

\* A replica has FAILED while two more replicas of its segment were still
\* NOT_STARTED; one of them is in flight now and the other untouched.
C12_Witness ==
    \E i \in fetchFailed :
        /\ replicas[i].state = "FAILED"
        /\ \E j, l \in ReplicasOf(replicas[i].segmentId) :
               replicas[j].state = "WAITING" /\ replicas[l].state = "NOT_STARTED"

\* The segments with exactly two replicas of which the first failed and the
\* second did not.
FailedOver ==
    {sid \in SegmentIds :
        /\ Cardinality(ReplicasOf(sid)) = 2
        /\ \E i, j \in ReplicasOf(sid) : i < j /\ i \in fetchFailed /\ j \notin fetchFailed}

\* C13 as stated: a replica whose fetch failed is in state FAILED when the
\* helper has ended.
C13_FailedStaysFailed ==
    HelperEnded => \A i \in fetchFailed : replicas[i].state = "FAILED"

\* C13, amended: when the helper has ended, a segment whose first of two
\* replicas failed and whose second did not was replayed exactly once and both
\* its replicas are OK; a replica whose fetch failed is OK when its segment was
\* replayed and FAILED otherwise; and when every segment failed over or had no
\* failure the helper raised nothing and successful is true.
C13_Failover ==
    HelperEnded =>
        /\ \A sid \in FailedOver :
               /\ replayCount[sid] = 1
               /\ \A i \in ReplicasOf(sid) : replicas[i].state = "OK"
        /\ \A i \in fetchFailed :
               replicas[i].state =
                   IF replayCount[replicas[i].segmentId] = 1 THEN "OK" ELSE "FAILED"
        /\ (\A sid \in SegmentIds : sid \in FailedOver \/ ReplicasOf(sid) \cap fetchFailed = {})
               => (recoverThrew = "none" /\ successful)

\* A recovery that ended after one segment failed over to its second replica.
C13_Witness ==
    /\ pc = "done"
    /\ FailedOver # {}
    /\ finishedSuccess = <<TRUE>>
    /\ \A sid \in SegmentIds : replayCount[sid] = 1

\* C14: for a replica list whose states are all OK or FAILED, in any order,
\* detectSegmentRecoveryFailure throws SegmentRecoveryFailedException exactly
\* when some segment id of the list has no replica in state OK.
C14_DetectIffNoOk ==
    pc = "detected" =>
        (recoverThrew = "SegmentRecoveryFailedException"
            <=> \E sid \in SegmentIds :
                    \A i \in ReplicasOf(sid) : replicas[i].state # "OK")

\* The keys of the migrated range and the entries the new owner has received.
InRange(key) ==
    /\ key[1] = reqHdr.tableId
    /\ key[2] >= reqHdr.firstKeyHash
    /\ key[2] <= reqHdr.lastKeyHash
SentPlaces ==
    UNION {{<<s, i>> : i \in 1..Len(received[s])} : s \in 1..Len(received)}
SentEntries == {received[p[1]][p[2]] : p \in SentPlaces}
TimesSent(e) == Cardinality({p \in SentPlaces : received[p[1]][p[2]] = e})
ReassignCalled == reassignCalls # <<>>

\* C15: once reassignTabletOwnership has been called, every object of the
\* range that was live at the Phase 2 snapshot has been sent to the new owner,
\* exactly once, and the new owner's hash table holds it at that version; a key
\* of the range with no live object has no object on the new owner; and until
\* the tablet is dropped the live objects of the range are still those of the
\* snapshot.
C15_LiveObjectsMigrated ==
    ReassignCalled =>
        \A key \in {k \in Keys : InRange(k)} :
            /\ IF snapshotLive[key] # 0
               THEN LET live == logEntries[snapshotLive[key]]
                    IN /\ TimesSent(live) = 1
                       /\ destObjects[key] = [version |-> live.version, type |-> "OBJ"]
               ELSE destObjects[key].type # "OBJ"
            /\ mpc \in {"waitReassign", "dropTablet"} => objectMap[key] = snapshotLive[key]

\* The handoff of a range in which an object was overwritten while the
\* migration ran: both versions went to the new owner.
C15_Witness ==
    /\ ReassignCalled
    /\ \E e1, e2 \in SentEntries :
           /\ e1.type = "OBJ" /\ e2.type = "OBJ"
           /\ e1.keyHash = e2.keyHash
           /\ e1.version < e2.version

\* C16 as stated: once the new owner's tablet for the range is NORMAL, the
\* master has no tablet for the range in its tablet map any more.
C16_SourceDeletedFirst ==
    (ReassignCalled /\ StateOf(destTablets, RequestRange) = "NORMAL")
        => ~HasTablet(tablets, RequestRange)

\* C16, amended: the new owner's tablet becomes NORMAL only after
\* reassignTabletOwnership was called and while the master still has its
\* tablet in the map, which that step leaves alone; and the master deletes its
\* tablet only after reassignTabletOwnership was called and the new owner's
\* tablet has become NORMAL.
C16_HandoffOrder ==
    /\ [][(StateOf(destTablets, RequestRange) # "NORMAL"
             /\ StateOf(destTablets', RequestRange) = "NORMAL")
          => /\ ReassignCalled
             /\ HasTablet(tablets, RequestRange)
             /\ tablets' = tablets]_vars
    /\ [][(HasTablet(tablets, RequestRange) /\ ~HasTablet(tablets', RequestRange))
          => /\ ReassignCalled
             /\ StateOf(destTablets, RequestRange) = "NORMAL"]_vars

\* The new owner serves the range, data has arrived there, and the master
\* still holds the tablet, locked.
C16_Witness ==
    /\ mpc = "dropTablet"
    /\ StateOf(destTablets, RequestRange) = "NORMAL"
    /\ StateOf(tablets, RequestRange) = "LOCKED_FOR_MIGRATION"
    /\ received # <<>>

\* The steps of a migrateTablet call without the repeated ones.
MigrationSkeleton ==
    SelectSeq(steps, LAMBDA x : x \notin {"phase1Scan", "phase2Scan", "receiveMigrationData"})
StepIndex(label) == CHOOSE i \in 1..Len(steps) : steps[i] = label
StepsBetween(label, first, last) ==
    \A i \in 1..Len(steps) :
        steps[i] = label => (StepIndex(first) < i /\ i < StepIndex(last))

\* C17: a migrateTablet call that returns OK has made its steps in this order:
\* prepForMigration, getHeadOfLog, the Phase 1 scan, the tablet set to
\* LOCKED_FOR_MIGRATION, the epoch increment, the epoch wait, the head
\* snapshot, the scan up to the snapshot, the last segment, then
\* reassignTabletOwnership with the new owner's head of before the migration,
\* the deletion of the tablet and the removal of the orphaned objects; the
\* tablet is LOCKED_FOR_MIGRATION from the changeState step until it is
\* deleted; and no receiveMigrationData follows reassignTabletOwnership.
C17_MigrationOrder ==
    /\ mpc \in {"epochWait", "phase2", "waitReassign", "dropTablet"}
          => StateOf(tablets, RequestRange) = "LOCKED_FOR_MIGRATION"
    /\ (mpc = "returned" /\ respStatus = "OK") =>
          /\ MigrationSkeleton =
                 <<"prepForMigration", "getHeadOfLog", "changeState",
                   "incrementCurrentEpoch", "epochWait", "getHead",
                   "reassignTabletOwnership", "deleteTablet",
                   "removeOrphanedObjects">>
          /\ StepsBetween("phase1Scan", "getHeadOfLog", "changeState")
          /\ StepsBetween("phase2Scan", "getHead", "reassignTabletOwnership")
          /\ StepsBetween("receiveMigrationData", "getHeadOfLog", "reassignTabletOwnership")
          /\ transferSeg = <<>>
          /\ Len(reassignCalls) = 1
          /\ reassignCalls[1].ctime = newOwnerLogHead
          /\ reassignCalls[1].ctime = destLogHead - Len(received)

\* The entry under the iterator passes the tests of the migration filter.
PassesFilter(e) ==
    /\ e.type \in {"OBJ", "OBJTOMB", "TXDECISION"}
    /\ e.tableId = reqHdr.tableId
    /\ reqHdr.firstKeyHash <= e.keyHash
    /\ e.keyHash <= reqHdr.lastKeyHash
    /\ (e.type = "OBJ" => objectMap[<<e.tableId, e.keyHash>>] = e.ref)

\* C18: a scan step puts the entry under the iterator, and no other, into a
\* transfer segment exactly when it is an OBJECT, OBJECT_TOMBSTONE or
\* TX_DECISION of the requested table with a key hash in the range, and, for
\* an OBJECT, the hash table points at it; every entry put into a transfer
\* segment is in the current segment or in one the new owner received.
C18_MigrationFilter ==
    /\ [][logIt' = logIt + 1 =>
             /\ (logEntries[logIt].ref \in appended' <=> PassesFilter(logEntries[logIt]))
             /\ appended' \subseteq appended \cup {logEntries[logIt].ref}
             /\ appended \subseteq appended']_vars
    /\ [](appended = {e.ref : e \in SentEntries}
                        \cup {transferSeg[i].ref : i \in 1..Len(transferSeg)})

\* The scan has passed a superseded version, which it left out, the live
\* version, which it took, and the tombstone of the superseded one.
C18_Witness ==
    \E i, j, k \in 1..Len(logEntries) :
        /\ i < logIt /\ j < logIt /\ k < logIt
        /\ logEntries[i].type = "OBJ" /\ InRange(<<logEntries[i].tableId, logEntries[i].keyHash>>)
        /\ logEntries[j].type = "OBJ" /\ logEntries[j].keyHash = logEntries[i].keyHash
        /\ logEntries[j].tableId = logEntries[i].tableId
        /\ logEntries[i].version < logEntries[j].version
        /\ logEntries[k].type = "OBJTOMB"
        /\ i \notin appended /\ j \in appended /\ k \in appended

\* C19 as stated: a migrateTablet whose new owner is the master itself
\* returns REQUEST_FORMAT_ERROR, whatever the table id and the range.
C19_SelfIsFormatError ==
    (mpc = "returned" /\ reqHdr.newOwnerMasterId = serverId)
        => respStatus = "REQUEST_FORMAT_ERROR"

\* C19, amended: a migrateTablet whose new owner is the master itself returns
\* REQUEST_FORMAT_ERROR when the master holds a tablet of exactly the
\* requested range, and UNKNOWN_TABLET when it does not.
C19_SelfIsFormatErrorIfOwned ==
    (mpc = "returned" /\ reqHdr.newOwnerMasterId = serverId)
        => respStatus = IF HasTablet(tablets, RequestRange)
                        THEN "REQUEST_FORMAT_ERROR" ELSE "UNKNOWN_TABLET"

\* A migration to itself of a tablet the master holds was rejected while the
\* tablet had objects in the log.
C19_Witness ==
    /\ mpc = "returned"
    /\ reqHdr.newOwnerMasterId = serverId
    /\ HasTablet(tablets, RequestRange)
    /\ respStatus = "REQUEST_FORMAT_ERROR"
    /\ objectMap[<<1, 0>>] # 0

\* C20: a migrateTablet for a range the master holds no tablet of returns
\* UNKNOWN_TABLET; and the step that rejects a request, with UNKNOWN_TABLET or
\* REQUEST_FORMAT_ERROR, sends nothing to the new owner or the coordinator and
\* leaves the tablet map, the tablet states and the epoch as they were.
C20_RejectedUntouched ==
    /\ []((mpc = "returned" /\ ~HasTablet(tablets, RequestRange) /\ steps = <<>>)
              => respStatus = "UNKNOWN_TABLET")
    /\ []((mpc = "returned" /\ respStatus \in {"UNKNOWN_TABLET", "REQUEST_FORMAT_ERROR"})
              => /\ steps = <<>>
                 /\ reassignCalls = <<>>
                 /\ received = <<>>
                 /\ newOwnerLogHead = -1)
    /\ [][(mpc = "idle" /\ mpc' = "returned"
              /\ respStatus' \in {"UNKNOWN_TABLET", "REQUEST_FORMAT_ERROR"})
          => /\ tablets' = tablets
             /\ currentEpoch' = currentEpoch
             /\ destTablets' = destTablets
             /\ destLogHead' = destLogHead]_vars

\* A request for a table the master has no tablet of was rejected while the
\* master was writing to its log.
C20_Witness ==
    /\ mpc = "returned"
    /\ respStatus = "UNKNOWN_TABLET"
    /\ reqHdr.newOwnerMasterId # serverId
    /\ logEntries # <<>>
    /\ destTablets # {}

\* The scan loop of migrateTablet is about to handle the entry under the
\* iterator, and that entry passes the filter and fits no segment.
ScanMeetsLargeEntry ==
    /\ \/ mpc = "phase1" /\ logIt < headSegmentStart
       \/ mpc = "phase2" /\ logIt < position
    /\ Selected(logIt)
    /\ ~Fits(<<>>, logEntries[logIt])

\* C21: when a scan of migrateTablet, in Phase 1 or Phase 2, comes to an entry
\* that does not fit into an empty transfer segment, the call ends there with
\* status INTERNAL_ERROR; and a call that ended with INTERNAL_ERROR never
\* called reassignTabletOwnership and has left the tablet in the master's
\* tablet map.
C21_LargeEntryAborts ==
    /\ [][(ScanMeetsLargeEntry /\ (logIt' # logIt \/ mpc' # mpc))
             => /\ mpc' = "returned"
                /\ respStatus' = "INTERNAL_ERROR"
                /\ logIt' = logIt]_vars
    /\ []((mpc = "returned" /\ respStatus = "INTERNAL_ERROR")
             => /\ reassignCalls = <<>>
                /\ HasTablet(tablets, RequestRange)
                /\ StateOf(destTablets, RequestRange) # "NORMAL")

\* The migration was stopped in Phase 2 by an entry too large for a segment.
C21_Witness ==
    /\ mpc = "returned"
    /\ respStatus = "INTERNAL_ERROR"
    /\ \E i \in 1..Len(steps) : steps[i] = "phase2Scan"
    /\ StateOf(tablets, RequestRange) = "LOCKED_FOR_MIGRATION"
    /\ logIt <= Len(logEntries)
    /\ ~Fits(<<>>, logEntries[logIt])

\* A ReceiveMigrationData RPC has just been answered.
ReceiveServed ==
    /\ lastRpc' # lastRpc \/ received' # received
    /\ lastRpc'.op = "receiveMigrationData"

\* C23: receiveMigrationData answers UNKNOWN_TABLET when no tablet of the new
\* owner contains (tableId, firstKeyHash), INTERNAL_ERROR when that tablet is
\* not RECOVERING, REQUEST_FORMAT_ERROR when the tablet is RECOVERING and the
\* payload is not segmentBytes + keyLength long; in these cases the hash
\* table, the log and the tablet map stay as they are.  Otherwise it answers
\* OK and the segment is replayed and committed; the tablet map stays as it is.
C23_ReceiveAdmission ==
    [][ReceiveServed =>
         LET req == lastRpc'.req
             found == Containing(destTablets, req.tableId, req.firstKeyHash)
             recovering == found # {} /\ \A t \in found : t.state = "RECOVERING"
             rightLength == req.payloadSize = req.segmentBytes + req.keyLength
         IN /\ destTablets' = destTablets
            /\ found = {} => lastRpc'.status = "UNKNOWN_TABLET"
            /\ (found # {} /\ ~recovering) => lastRpc'.status = "INTERNAL_ERROR"
            /\ (recovering /\ ~rightLength) => lastRpc'.status = "REQUEST_FORMAT_ERROR"
            /\ (recovering /\ rightLength) =>
                  /\ lastRpc'.status = "OK"
                  /\ received' = Append(received, req.segment)
                  /\ destObjects' = ReplaySegment(destObjects, req.segment, 1)
            /\ lastRpc'.status # "OK" =>
                  UNCHANGED <<received, destObjects, destLogHead>>]_vars

\* A segment with an object came with a payload of the wrong length for a
\* RECOVERING tablet and was turned down, after another had been replayed.
C23_Witness ==
    /\ lastRpc.op = "receiveMigrationData"
    /\ lastRpc.status = "REQUEST_FORMAT_ERROR"
    /\ lastRpc.req.segment # <<>>
    /\ Len(received) = 1
    /\ \E t \in Containing(destTablets, lastRpc.req.tableId, lastRpc.req.firstKeyHash) :
           t.state = "RECOVERING"

\* A PrepForMigration RPC has just been answered by the new owner.
PrepServed ==
    /\ lastRpc' # lastRpc \/ destTablets' # destTablets
    /\ lastRpc'.op = "prepForMigration"
    /\ lastRpc'.who = "newOwner"

\* C24: prepForMigration adds the requested range as a RECOVERING tablet when
\* it overlaps no tablet of the new owner; when it overlaps one, in part, by
\* containing it or by lying inside it, the answer is OBJECT_EXISTS and the
\* tablet map stays as it is.
C24_PrepOverlap ==
    [][PrepServed =>
         LET r == lastRpc'.req
         IN IF Overlaps(destTablets, r)
            THEN /\ lastRpc'.status = "OBJECT_EXISTS"
                 /\ destTablets' = destTablets
            ELSE /\ lastRpc'.status = "OK"
                 /\ destTablets' = destTablets \cup {WithState(r, "RECOVERING")}]_vars

\* The range of a tablet, and the state changes the state machine allows.
RangeOf(t) == Range(t.tableId, t.startKeyHash, t.endKeyHash)

AllowedChanges ==
    {<<"NORMAL", "RECOVERING">>, <<"RECOVERING", "NORMAL">>,
     <<"NORMAL", "LOCKED_FOR_MIGRATION">>}

\* Every tablet of map that is still there in after has kept its state or
\* changed it along an allowed edge.
AllowedStateChanges(map, after) ==
    \A t \in map :
        LET state == StateOf(after, RangeOf(t))
        IN state \in {t.state, "ABSENT"} \/ <<t.state, state>> \in AllowedChanges

\* The tablets of map that are not in after any more.
DeletedTablets(map, after) ==
    {t \in map : StateOf(after, RangeOf(t)) = "ABSENT"}

\* C22 as stated: every state change of a tablet, on the master and on the
\* new owner, follows an allowed edge (so a LOCKED_FOR_MIGRATION tablet keeps
\* its state), and a tablet is deleted only from LOCKED_FOR_MIGRATION.
C22_DeletedOnlyLocked ==
    [][/\ AllowedStateChanges(tablets, tablets')
       /\ AllowedStateChanges(destTablets, destTablets')
       /\ \A t \in DeletedTablets(tablets, tablets')
                   \cup DeletedTablets(destTablets, destTablets') :
              t.state = "LOCKED_FOR_MIGRATION"]_vars

\* C22, amended: every state change of a tablet follows an allowed edge, so a
\* LOCKED_FOR_MIGRATION tablet keeps its state; a tablet is deleted, whatever
\* its state, only by dropTabletOwnership, by recover when the coordinator
\* cancels the recovery (a tablet of its partition), and by migrateTablet
\* after reassignTabletOwnership (the tablet of the request).
C22_TabletStateMachine ==
    [][/\ AllowedStateChanges(tablets, tablets')
       /\ AllowedStateChanges(destTablets, destTablets')
       /\ \A t \in DeletedTablets(tablets, tablets') :
              \/ /\ pc' = pc /\ mpc' = mpc
                 /\ lastRpc'.op = "dropTabletOwnership"
                 /\ lastRpc'.who = "master"
                 /\ lastRpc'.req = RangeOf(t)
              \/ /\ pc = "waitCoordinator"
                 /\ cancelRecovery'
                 /\ RangeOf(t) \in PartitionTablets
              \/ /\ mpc = "dropTablet"
                 /\ mpc' = "returned"
                 /\ RangeOf(t) = RequestRange
       /\ \A t \in DeletedTablets(destTablets, destTablets') :
              /\ pc' = pc /\ mpc' = mpc
              /\ lastRpc'.op = "dropTabletOwnership"
              /\ lastRpc'.who = "newOwner"
              /\ lastRpc'.req = RangeOf(t)]_vars

\* The tablet was migrated away, and afterwards a recovery that had installed
\* its tablets was cancelled and deleted them.
C22_Witness ==
    /\ mpc = "returned"
    /\ respStatus = "OK"
    /\ pc = "done"
    /\ cancelRecovery
    /\ successful
    /\ \A t \in tablets : t.tableId # 1

\* What the write handlers did for rpcId id.
Executions(id) == <<objectWrites[id], indexInserts[id], completions[id]>>

ReportedPairs ==
    {pair \in BackupSegmentIds \X Backups : pair[1] \in segmentsOf[pair[2]]}

\* The sequence of pairs holds each reported pair once and nothing else, in
\* the order of the segment ids and, within one segment id, of the backups.
OnePerPairInOrder(pairs) ==
    /\ \A pair \in ReportedPairs :
          Cardinality({i \in 1..Len(pairs) : pairs[i] = pair}) = 1
    /\ \A i \in 1..Len(pairs) : pairs[i] \in ReportedPairs
    /\ \A i, j \in 1..Len(pairs) :
          i < j => \/ pairs[i][1] < pairs[j][1]
                   \/ pairs[i][1] = pairs[j][1] /\ pairs[i][2] < pairs[j][2]

\* C26: whatever segments of the crashed master the backups hold, the
\* segment-to-backup map and the dispatch list both have exactly one entry
\* per (segment id, backup) pair the backups report, in ascending order of
\* the segment ids and of the backups within a segment id; a backup without
\* segments has no entry; every entry of the dispatch list has role BACKUP.
C26_ReplicaMapOrdered ==
    /\ cpc # "idle" =>
          OnePerPairInOrder([i \in 1..Len(segmentIdToBackups) |->
              <<segmentIdToBackups[i].segmentId, segmentIdToBackups[i].backup>>])
    /\ cpc \notin {"idle", "mapped"} =>
          /\ OnePerPairInOrder([i \in 1..Len(backups) |->
                 <<backups[i].segment_id, backups[i].server_id>>])
          /\ \A i \in 1..Len(backups) : backups[i].service_type = "BACKUP"

\* The layout of RecoveryTest::setUp or one like it: a segment with two
\* copies, a backup without segments, and the list is built.
C26_Witness ==
    /\ cpc = "listed"
    /\ \E b \in Backups : segmentsOf[b] = {}
    /\ \E sid \in BackupSegmentIds :
          Cardinality({b \in Backups : sid \in segmentsOf[b]}) = 2
    /\ Len(backups) = 3

\* The segment ids of the events of one kind in the log of master m, in order.
RECURSIVE EventSegments(_, _, _)
EventSegments(lg, event, i) ==
    IF i > Len(lg) THEN <<>>
    ELSE (IF lg[i].event = event THEN <<lg[i].segmentId>> ELSE <<>>)
         \o EventSegments(lg, event, i + 1)

NoFetchFailed(m) == EventSegments(boards[m].log, "GRD failed", 1) = <<>>

StrictlyAscending(seq) == \A i, j \in 1..Len(seq) : i < j => seq[i] < seq[j]

Elements(seq) == {seq[i] : i \in 1..Len(seq)}

\* C27: a recovery master that was started has the tablets of one partition
\* id, all of them, master i having partition i - 1, so no two masters have
\* the same; while no fetch of it has failed its GetRecoveryData RPCs went out
\* in ascending order of the segment ids, one per segment id, and when its
\* recovery has ended there was one for every segment id of the list and each
\* has completed.
C27_DispatchAndFetchOrder ==
    \A m \in Masters :
        boards[m].pc # "idle" =>
            /\ boards[m].partition = m - 1
            /\ boards[m].tablets = TabletsOfPartition(will, m - 1)
            /\ boards[m].tablets # {}
            /\ NoFetchFailed(m) =>
                  LET issued == EventSegments(boards[m].log, "GRD", 1)
                      completed == EventSegments(boards[m].log, "GRD complete", 1)
                  IN /\ StrictlyAscending(issued)
                     /\ Elements(completed) \subseteq Elements(issued)
                     /\ boards[m].pc = "done" =>
                           /\ Elements(issued) =
                                 {backups[i].segment_id : i \in 1..Len(backups)}
                           /\ Elements(completed) = Elements(issued)
                           /\ Len(completed) = Len(issued)

\* The recovery of test_start has ended on both masters without a failed
\* fetch: three replicas, two segment ids, two fetches on each master.
C27_Witness ==
    /\ Len(backups) = 3
    /\ \A m \in Masters :
          /\ boards[m].pc = "done"
          /\ NoFetchFailed(m)
          /\ EventSegments(boards[m].log, "GRD", 1) =
                <<FirstSegmentId, FirstSegmentId + 1>>
    /\ boards[1].partition # boards[2].partition

\* C28: with more recovery partitions than recovery masters Recovery::start
\* starts one partition on each master, the i-th on the i-th, and no other;
\* no master ever has a partition beyond these; and when the masters have
\* been gone through its log ends with the one diagnostic that not all
\* partitions were recovered, which is not logged before.
C28_NotEnoughMasters ==
    NumPartitions(will) > NumMasters =>
        /\ \A i \in 1..Len(testLog) :
              \/ /\ testLog[i].event = "start"
                 /\ testLog[i].master = i
                 /\ i <= NumMasters
              \/ /\ testLog[i] = Busted
                 /\ i = NumMasters + 1
                 /\ cpc = "started"
        /\ \A m \in Masters : boards[m].partition < NumMasters
        /\ cpc = "started" => /\ Len(testLog) = NumMasters + 1
                              /\ testLog[NumMasters + 1] = Busted

\* test_start_notEnoughMasters: three partitions, both masters have ended
\* their recoveries and the diagnostic is logged.
C28_Witness ==
    /\ NumPartitions(will) = NumMasters + 1
    /\ cpc = "started"
    /\ testLog[Len(testLog)] = Busted
    /\ \A m \in Masters : boards[m].pc = "done"
    /\ Len(backups) = 3

\* while (activeRequests) has ended and detectSegmentRecoveryFailure is next.
LoopExit == pc = "eventLoop" /\ activeRequests = 0

\* C29: when every GetRecoveryData RPC that was issued becomes ready, the
\* event loop of recover ends, with activeRequests = 0; no replica was issued
\* more than one GetRecoveryData RPC; and when the loop has ended every
\* replica is OK or FAILED, none NOT_STARTED or WAITING, so
\* detectSegmentRecoveryFailure does not come to its assert.
C29_EventLoopTerminates ==
    /\ (pc = "eventLoop") ~> LoopExit
    /\ [](\A i \in 1..Len(replicas) : grdIssued[i] <= 1)
    /\ [](LoopExit => \A i \in 1..Len(replicas) :
                         replicas[i].state \in {"OK", "FAILED"})

\* The loop has ended for a list longer than the task slots, after a failed
\* fetch, with a replica that was never fetched.
C29_Witness ==
    /\ LoopExit
    /\ Len(replicas) > W
    /\ \E i \in 1..Len(replicas) : replicas[i].state = "FAILED"
    /\ \E i \in 1..Len(replicas) : grdIssued[i] = 0

\* The states of the master's tablets that cover key hash h of the table of
\* the migration.
SourceStates(h) == {t.state : t \in Containing(tablets, reqHdr.tableId, h)}

\* C30: while the new owner's tablet of the migrated range is NORMAL, the
\* master's tablet that covers a key hash of the range is
\* LOCKED_FOR_MIGRATION or is deleted, for every key hash of the range; so the
\* two are never NORMAL together.
C30_NeverBothServing ==
    (mpc # "idle" /\ StateOf(destTablets, RequestRange) = "NORMAL")
        => \A h \in reqHdr.firstKeyHash..reqHdr.lastKeyHash :
              SourceStates(h) \subseteq {"LOCKED_FOR_MIGRATION"}

\* C31: in the step in which migrateTablet calls reassignTabletOwnership the
\* master's tablet of the range is LOCKED_FOR_MIGRATION, whatever state it
\* had when Phase 2 began.
C31_LockedAtReassign ==
    [][(reassignCalls' # reassignCalls)
          => StateOf(tablets, RequestRange) = "LOCKED_FOR_MIGRATION"]_vars

\* C32: once the migrateTablet call has returned, with whatever status, no
\* tablet of the master is LOCKED_FOR_MIGRATION: the tablet it locked is
\* deleted or serves again.
C32_NotLeftLocked ==
    mpc = "returned" => \A t \in tablets : t.state # "LOCKED_FOR_MIGRATION"

\* The references of the entries the new owner received, segment after
\* segment.
RECURSIVE DeliveredRefs(_)
DeliveredRefs(k) ==
    IF k > Len(received) THEN <<>>
    ELSE [i \in 1..Len(received[k]) |-> received[k][i].ref] \o DeliveredRefs(k + 1)

\* An entry the filter selects at whatever time it is scanned before the
\* snapshot: a tombstone or a decision record of the range, or an object of
\* the range that is live at the snapshot.
SelectedForSure(i) ==
    LET e == logEntries[i]
        key == <<e.tableId, e.keyHash>>
    IN /\ i < position
       /\ e.tableId = reqHdr.tableId
       /\ reqHdr.firstKeyHash <= e.keyHash /\ e.keyHash <= reqHdr.lastKeyHash
       /\ \/ e.type \in {"OBJTOMB", "TXDECISION"}
          \/ e.type = "OBJ" /\ snapshotLive[key] = i

\* C33: in a migrateTablet that came to reassignTabletOwnership every entry
\* the filter selected was received by the new owner in one
\* receiveMigrationData call and once in it, in the order of the log; nothing
\* else was received; no segment was sent empty or over its capacity; no
\* segment is left unsent; and a scan step that ships a segment puts the entry
\* that did not fit into the fresh one.
C33_DeliveredExactlyOnce ==
    /\ [](ReassignCalled =>
            /\ transferSeg = <<>>
            /\ StrictlyAscending(DeliveredRefs(1))
            /\ Elements(DeliveredRefs(1)) = appended
            /\ \A i \in 1..Len(logEntries) :
                  SelectedForSure(i) => i \in Elements(DeliveredRefs(1))
            /\ \A k \in 1..Len(received) :
                  /\ received[k] # <<>>
                  /\ SegmentBytes(received[k], 1) <= SegmentCapacity
                  /\ \A i \in 1..Len(received[k]) :
                        received[k][i] = logEntries[received[k][i].ref])
    /\ [][(logIt' = logIt + 1 /\ received' # received)
            => /\ received' = Append(received, transferSeg)
               /\ transferSeg' = <<logEntries[logIt]>>]_vars

\* The migration came to reassignTabletOwnership after both scans, with a
\* segment shipped because it was full and the last one shipped at the end.
C33_Witness ==
    /\ ReassignCalled
    /\ Len(received) >= 2
    /\ \E i \in 1..Len(steps) : steps[i] = "phase1Scan"
    /\ \E i \in 1..Len(steps) : steps[i] = "phase2Scan"

\* C34: a migration that waits at the barrier has its own RPC's epoch above
\* the old epoch, so it does not wait for itself; and when the other RPCs
\* complete, the wait of every migration ends, also when a migrateTablet and
\* a splitAndMigrateIndexlet are at their barriers together.
C34_BarrierTerminates ==
    /\ [](\A m \in Migrators :
             migrators[m].pc = "epochWait" => migrators[m].rpcEpoch > migrators[m].epoch)
    /\ \A m \in Migrators :
          (migrators[m].pc = "epochWait") ~> (migrators[m].pc = "phase2")

\* Both migrations are at their barriers and an RPC of the first epoch is
\* still in progress.
C34_Witness ==
    /\ \A m \in Migrators : migrators[m].pc = "epochWait"
    /\ OtherRpc(1) \in outstanding

\* C35: takeTabletOwnership adds the range as NORMAL when no tablet overlaps
\* it, answers OK and changes nothing when the range is held as NORMAL, makes
\* it NORMAL when the range is held as RECOVERING, and in every other case
\* answers INTERNAL_ERROR and leaves the map as it was; a tablet that is
\* LOCKED_FOR_MIGRATION is never changed, and a second call with the same
\* range changes nothing.
TookOwnership(r) ==
    /\ lastRpc' # lastRpc
    /\ lastRpc'.op = "takeTabletOwnership"
    /\ lastRpc'.who = "master"
    /\ lastRpc'.req = r

C35_TakeTabletOwnership ==
    /\ [][\A r \in RpcRanges : TookOwnership(r) =>
            /\ ~Overlaps(tablets, r) =>
                  /\ tablets' = tablets \cup {WithState(r, "NORMAL")}
                  /\ lastRpc'.status = "OK"
            /\ WithState(r, "NORMAL") \in tablets =>
                  /\ tablets' = tablets
                  /\ lastRpc'.status = "OK"
            /\ WithState(r, "RECOVERING") \in tablets =>
                  /\ tablets' = (tablets \ {WithState(r, "RECOVERING")})
                                   \cup {WithState(r, "NORMAL")}
                  /\ lastRpc'.status = "OK"
            /\ ( /\ Overlaps(tablets, r)
                 /\ WithState(r, "NORMAL") \notin tablets
                 /\ WithState(r, "RECOVERING") \notin tablets ) =>
                  /\ tablets' = tablets
                  /\ lastRpc'.status = "INTERNAL_ERROR"
            /\ \A t \in tablets :
                  t.state = "LOCKED_FOR_MIGRATION" => t \in tablets']_vars
    /\ [](\A r \in RpcRanges :
             TakeTabletOwnership(TakeTabletOwnership(tablets, r).map, r).map
                = TakeTabletOwnership(tablets, r).map)

\* The master refused the range it holds as LOCKED_FOR_MIGRATION, beside a
\* tablet of another table.
C35_Witness ==
    /\ lastRpc.op = "takeTabletOwnership"
    /\ lastRpc.status = "INTERNAL_ERROR"
    /\ WithState(lastRpc.req, "LOCKED_FOR_MIGRATION") \in tablets
    /\ Cardinality(tablets) = 2

\* C36: every entry splitAndMigrateIndexlet has sent or holds for sending
\* carries newBackingTableId and comes from an entry of currentBackingTableId
\* whose index key is not below the split key; once the epoch has been
\* incremented, and once the head has been marked, the indexlet is truncated
\* at the split key, and the steps were taken in that order;
\* and a request for an indexlet the master does not hold is answered
\* UNKNOWN_INDEXLET, else one for a backing table it does not hold
\* UNKNOWN_TABLET, else one that names the master itself REQUEST_FORMAT_ERROR,
\* with the indexlets as they were and nothing sent.
SplitEntriesSent ==
    {split.transferSeg[i] : i \in 1..Len(split.transferSeg)}
    \cup UNION {{splitSent[k].segment[i] : i \in 1..Len(splitSent[k].segment)} :
                   k \in 1..Len(splitSent)}

TruncatedAtSplitKey ==
    \A k \in IndexKeys :
        k >= splitReq.splitKey
            => ~HasIndexlet(indexletMap, splitReq.tableId, splitReq.indexId, k)

StepAt(label) ==
    CHOOSE i \in 1..Len(split.steps) : split.steps[i] = label

StepTaken(label) == \E i \in 1..Len(split.steps) : split.steps[i] = label

C36_SplitAndMigrateIndexlet ==
    /\ \A e \in SplitEntriesSent :
          /\ e.tableId = splitReq.newBackingTableId
          /\ indexLog[e.ref].tableId = splitReq.currentBackingTableId
          /\ indexLog[e.ref].indexKey >= splitReq.splitKey
    /\ \A k \in 1..Len(splitSent) :
          /\ splitSent[k].tableId = splitReq.newBackingTableId
          /\ splitSent[k].firstKeyHash = 0
    /\ (currentEpoch > 1 \/ split.epoch # -1) => TruncatedAtSplitKey
    /\ split.position # -1
          => /\ TruncatedAtSplitKey
             /\ split.epoch = currentEpoch - 1
             /\ split.rpcEpoch > split.epoch
    /\ StepTaken("incrementCurrentEpoch")
          => /\ StepTaken("truncateIndexlet")
             /\ StepAt("truncateIndexlet") < StepAt("incrementCurrentEpoch")
    /\ StepTaken("getHead")
          => /\ StepAt("incrementCurrentEpoch") < StepAt("epochWait")
             /\ StepAt("epochWait") < StepAt("getHead")
    /\ split.pc # "idle" =>
          LET indexlet == HasIndexlet(OwnedIndexlets, splitReq.tableId,
                                      splitReq.indexId, splitReq.splitKey)
              tablet == Containing(tablets, splitReq.currentBackingTableId, 0) # {}
          IN /\ ~indexlet => split.status = "UNKNOWN_INDEXLET"
             /\ (indexlet /\ ~tablet) => split.status = "UNKNOWN_TABLET"
             /\ (indexlet /\ tablet /\ splitReq.newOwnerId = serverId)
                   => split.status = "REQUEST_FORMAT_ERROR"
    /\ split.status \in {"UNKNOWN_INDEXLET", "UNKNOWN_TABLET",
                          "REQUEST_FORMAT_ERROR"}
          => /\ split.pc = "returned"
             /\ indexletMap = OwnedIndexlets
             /\ splitSent = <<>>
             /\ split.transferSeg = <<>>
             /\ split.steps = <<>>

\* The split has returned after Phase 2, having sent its last segment after
\* the head was marked, while the log held an entry below the split key.
C36_Witness ==
    /\ split.pc = "returned"
    /\ split.status = "OK"
    /\ StepTaken("getHead")
    /\ Len(splitSent) >= 1
    /\ \E i \in 1..Len(indexLog) :
          /\ indexLog[i].tableId = splitReq.currentBackingTableId
          /\ indexLog[i].indexKey < splitReq.splitKey
    /\ \E i \in 1..Len(split.steps) :
          i > StepAt("getHead") /\ split.steps[i] = "receiveMigrationData"

\* C37: when a tablet of the partition overlaps one the master holds, the
\* Recover handler ends by the exception with no GetRecoveryData issued and
\* no recoveryMasterFinished sent, and no tablet of the partition is left in
\* the map as RECOVERING.
HeldBeforeRequest == {t \in tablets : t.state = "NORMAL"}

C37_OverlapLeavesMapAsItWas ==
    ( /\ pc = "threw"
      /\ exception = "Exception"
      /\ \E i \in 1..Len(request.tablet) :
            Overlaps(HeldBeforeRequest, request.tablet[i]) ) =>
        /\ grdIssued = <<>>
        /\ finishedCalls = 0
        /\ \A t \in tablets : t.state # "RECOVERING"

\* C38: a request dispatched before initOnceEnlisted is rejected with a
\* retry, and one dispatched while disableCount > 0 is answered STATUS_RETRY,
\* its handler not invoked; disableCount is the number of Disablers
\* constructed on the service and neither re-enabled nor destroyed, and is
\* never negative; and reenable() and the destruction of one Disabler
\* together take one off the count.
ActiveDisablers ==
    {d \in DisablerIds : disablers[d].pc = "alive" /\ disablers[d].service # "NULL"}

C38_RequestGating ==
    /\ [][lastDispatch' # lastDispatch =>
            /\ ~initCalled => lastDispatch'.outcome = "RetryException"
            /\ (initCalled /\ disableCount > 0)
                  => lastDispatch'.outcome = "STATUS_RETRY"
            /\ lastDispatch'.outcome = "handler"
                  => (initCalled /\ disableCount = 0)]_vars
    /\ [](disableCount = Cardinality(ActiveDisablers))
    /\ [](disableCount >= 0)
    /\ [][\A d \in DisablerIds :
            /\ (d \in ActiveDisablers /\ disablers'[d] # disablers[d])
                  => disableCount' = disableCount - 1
            /\ (disablers[d].pc = "alive" /\ d \notin ActiveDisablers
                  /\ disablers'[d].pc = "destroyed")
                  => disableCount' = disableCount]_vars

\* A Disabler has been destroyed while another one still disables the
\* service, and a request was answered STATUS_RETRY.
C38_Witness ==
    /\ \E d \in DisablerIds : disablers[d].pc = "destroyed"
    /\ disableCount = 1
    /\ lastDispatch.outcome = "STATUS_RETRY"

\* C39: a TxDecision request gets one reply: REQUEST_FORMAT_ERROR, with the
\* state as it was, when the decision is neither COMMIT nor ABORT;
\* UNKNOWN_TABLET when the tablet of a participant is missing or not NORMAL;
\* and OK after syncChanges otherwise; and the same decision made again
\* finds no prepared op and leaves the prepared ops and the commits as the
\* first left them.
TxTabletsOk(req) ==
    \A i \in 1..Len(req.participants) :
        LET held == Containing(tablets, req.participants[i].tableId,
                               req.participants[i].keyHash)
        IN held # {} /\ \A t \in held : t.state = "NORMAL"

C39_ExactlyOneReply ==
    /\ txReq # NoTxRequest =>
          /\ Len(txReplies) = 1
          /\ txReq.decision \notin {"COMMIT", "ABORT"}
                => txReplies[1] = "REQUEST_FORMAT_ERROR"
          /\ (txReq.decision \in {"COMMIT", "ABORT"} /\ ~TxTabletsOk(txReq))
                => txReplies[1] = "UNKNOWN_TABLET"
          /\ (txReq.decision \in {"COMMIT", "ABORT"} /\ TxTabletsOk(txReq))
                => txReplies[1] = "OK" /\ txSynced
    /\ \A req \in TxRequests :
          LET once == TxDecision(req)
              twice == TxProcess(req, 1, once.prepared, once.commits)
          IN IF req.decision \in {"COMMIT", "ABORT"}
             THEN twice.prepared = once.prepared /\ twice.commits = once.commits
             ELSE once.prepared = preparedWrites /\ once.commits = txCommits

====
